---- MODULE Spec2Model ----
(***************************************************************************)
(* Message lifecycle engine of micro-mail-sender: the messages and bodies  *)
(* tables, enqueueMessage, the sender loop (dequeueMessage, sendMesg,      *)
(* sentMessage / abandonMessage, cleanMessageBody) and the bounce monitor  *)
(* (monitor1).  Every SQL statement and every transaction of the source is *)
(* one atomic step; goroutines interleave between statements.              *)
(***************************************************************************)
EXTENDS Integers, Sequences, FiniteSets, TLC

\* ---------------------------------------------------------------- bounds
MaxPers == 3        \* personalizations per send request
MaxMsgs == 2        \* message rows ever inserted
NumSenders == 2     \* concurrent callers of dequeueMessage / sendMesg
MaxTime == 1        \* last value of the unix clock
MaxLeaves == 4      \* simple expressions of a conjunction chain
MaxValueLen == 3    \* bytes of a query value
MaxPieces == 4      \* pieces a query text is put together from
MaxTo == 2          \* to addresses of a personalization
MaxContents == 3    \* content parts of a message
MaxAuthPieces == 3  \* pieces an Authorization header is put together from
MaxKeyLen == 2      \* bytes of an API key
MaxAttachments == 2 \* attachments of a message
MaxRows == 3        \* rows of messages searched by status

\* ------------------------------------------------------ program constants
MessageWaiting == 0
MessageProcessing == 1
MessageSent == 2
MessageAbandoned == 3

Undeliverable == "Undeliverable"
SmtpError == "smtp error"
SqlNull == "<NULL>"     \* a column no statement has set
NoError == ""

\* monitor1: the wait it asks for before the next call, in milliseconds
LongWait == 500
ShortWait == 50

Senders == 1..NumSenders
UnknownUid == 0     \* a message id no row carries

VARIABLES
    messages,   \* table messages: uid -> [bid, status, last_update, last_error]
    bodies,     \* table bodies: bid -> packet
    nextUid,    \* source of fresh message uuids
    nextBid,    \* source of fresh body uuids
    now,        \* time.Now().Unix()
    spc,        \* sender w: position in senderLoop / dequeueMessage / sendMesg
    scur,       \* sender w: the row / Message it holds, the value just returned to senderLoop
    mpc,        \* monitor: position in monitor1
    mcur,       \* monitor: the Message returned by getMessage; between two steps,
                \* what the last monitor1 call returned (processed, waitus)
    handed,     \* uids the local MTA has accepted
    dequeued,   \* uid -> number of dequeueMessage calls that returned it
    cleaned,    \* uids whose cleanMessageBody transaction committed
    lastEnq,    \* the last enqueueMessage call: its request, the requests inserted
                \* before the injected failure, whether it returned an error
    submitted,  \* uid -> number of sendLocal calls made for it
    dbfail,     \* uids for which a statement of dequeueMessage, sentMessage or
                \* abandonMessage failed after the row had been claimed
    quitSenderHandler,  \* sender w: values buffered in the channel (capacity 1)
    quitMonitorHandler, \* monitor: values buffered in the channel (capacity 1)
    call        \* the call of a function under test: its name, the value its
                \* argument was built from, the argument, what it returned

vars == <<messages, bodies, nextUid, nextBid, now, spc, scur, mpc, mcur,
          handed, dequeued, cleaned, lastEnq,
          submitted, dbfail, quitSenderHandler, quitMonitorHandler, call>>

\* no function is under test
NoCall == [op |-> "none", src |-> [family |-> "none"], arg |-> <<>>, ret |-> [pending |-> FALSE]]
\* the function has not returned yet
Pending == [pending |-> TRUE]

\* ------------------------------------------------------------- requests
\* an address is the sequence of its bytes
PersA == [To |-> << [email |-> <<"a">>] >>, Cc |-> <<>>, Bcc |-> <<>>, subject |-> ""]
PersB == [To |-> << [email |-> <<"b">>] >>, Cc |-> <<>>, Bcc |-> <<>>, subject |-> "hello"]

\* the request with n personalizations: a, b, a, ...
SampleRequest(n) ==
    [from |-> "from@example.com", subject |-> "Test Subject",
     personalizations |-> [i \in 1..n |-> IF i % 2 = 1 THEN PersA ELSE PersB]]

SendRequests == { SampleRequest(n) : n \in 0..MaxPers }

\* json.Marshal / json.Unmarshal of a SendRequest: the stored packet is a
\* text, not the struct.
Marshal(req) == <<"json", req>>
\* mutant: the packet is not decoded, m.packet stays the zero SendRequest
MutUnmarshalZero(packet) == [from |-> "", subject |-> "", personalizations |-> <<>>]
Unmarshal(packet) == packet[2]

\* mutant: every expanded request keeps all the personalizations
MutExpandPersonalizationKeepAll(req) ==
    [i \in 1..Len(req.personalizations) |-> req]

expandPersonalization(req) ==
    [i \in 1..Len(req.personalizations) |->
        [req EXCEPT !.personalizations = <<req.personalizations[i]>>]]

\* ------------------------------------------------------- database faults
\* where an enqueueMessage call of n personalizations can fail: Begin, the
\* bodies insert or the messages insert of personalization k, Commit.
FailPoints(n) ==
    { [at |-> a, k |-> 0] : a \in {"none", "begin", "commit"} }
    \cup { [at |-> a, k |-> k] : a \in {"body", "message"}, k \in 1..n }

\* ----------------------------------------------------- receivers column
Soh == "\\x01"      \* the byte \x01
Comma == ","

RECURSIVE Join(_, _)
Join(ss, sep) ==
    IF ss = <<>>
    THEN <<>>
    ELSE IF Len(ss) = 1
    THEN ss[1]
    ELSE ss[1] \o sep \o Join(Tail(ss), sep)

\* the loop over one address list: "\x01"+a.Email+"\x01" for each a whose
\* Email is not empty
RECURSIVE delimited(_)
delimited(addrs) ==
    IF addrs = <<>>
    THEN <<>>
    ELSE (IF Head(addrs).email # <<>>
          THEN << <<Soh>> \o Head(addrs).email \o <<Soh>> >>
          ELSE <<>>)
         \o delimited(Tail(addrs))

receiverEmails(req) ==
    LET p == req.personalizations[1]
    IN Join(delimited(p.To) \o delimited(p.Cc) \o delimited(p.Bcc), <<Comma>>)

\* mutant: every row references the first body
MutEnqueueMessage1RowFirstBody(req, bid, lastUpdate) ==
    [bid |-> 1, status |-> MessageWaiting,
     last_update |-> lastUpdate, last_error |-> SqlNull,
     sender |-> req.from,
     receivers |-> receiverEmails(req),
     subject |-> IF req.personalizations[1].subject # ""
                 THEN req.personalizations[1].subject
                 ELSE req.subject]

\* the row enqueueMessage1 inserts into messages for the expanded request req
enqueueMessage1Row(req, bid, lastUpdate) ==
    [bid |-> bid, status |-> MessageWaiting,
     last_update |-> lastUpdate, last_error |-> SqlNull,
     sender |-> req.from,
     receivers |-> receiverEmails(req),
     subject |-> IF req.personalizations[1].subject # ""
                 THEN req.personalizations[1].subject
                 ELSE req.subject]

\* ------------------------------------------------------------ enqueue
\* the rows written by enqueueMessage1 for the requests rs[1..k]
enqueueMessage1Messages(rs, k) ==
    [u \in nextUid..(nextUid + k - 1) |->
        enqueueMessage1Row(rs[u - nextUid + 1], nextBid + (u - nextUid), now)]

enqueueMessage1Bodies(rs, k) ==
    [b \in nextBid..(nextBid + k - 1) |-> Marshal(rs[b - nextBid + 1])]

\* number of expanded requests enqueueMessage1 has inserted when the
\* failure strikes
enqueueMessageInserted(n, fail) ==
    CASE fail.at \in {"none", "commit"} -> n
      [] fail.at = "begin" -> 0
      [] OTHER -> fail.k - 1

\* mutant: no Rollback, the rows inserted before the failure stay
MutEnqueueMessageNoRollback(n, fail) ==
    CASE fail.at \in {"none", "commit"} -> n
      [] fail.at = "begin" -> 0
      [] OTHER -> fail.k - 1

\* number of expanded requests whose rows the transaction persists: all of
\* them after Commit, none after Rollback or a failed Begin / Commit.
enqueueMessagePersisted(n, fail) == IF fail.at = "none" THEN n ELSE 0

\* the mail monitor1 worked on and what it returned: nothing yet, waitus 0
NoMail == [uid |-> UnknownUid, processed |-> FALSE, waitus |-> 0, mail |-> "-",
           dberr |-> FALSE]
\* mutant: the quit case is never ready
MutSelectQuitNever(ch) == FALSE
\* mutant: the quit case is taken whatever the channel holds
MutSelectQuitAlways(ch) == TRUE
\* select: case <-quit is taken when the channel holds a value, default otherwise
selectQuit(ch) == ch > 0
\* mutant: a loop is stopped wherever it is
MutQuitPointsAnywhere == {"loop", "body", "send", "sent", "abandon", "clean", "sleep"}
\* senderLoop reads the channel at the top of an iteration only
quitPoints == {"loop"}

NoEnq == [req |-> SampleRequest(0), inserted |-> 0, err |-> FALSE]
NoRow == [uid |-> UnknownUid, bid |-> 0, err |-> NoError]
\* senderLoop between a call's return and time.Sleep: what the call returned
Returned(ret) == [uid |-> UnknownUid, bid |-> 0, err |-> ret]

Init ==
    /\ messages = <<>>
    /\ bodies = <<>>
    /\ nextUid = 1
    /\ nextBid = 1
    /\ now = 0
    /\ spc = [w \in Senders |-> "loop"]
    /\ scur = [w \in Senders |-> NoRow]
    /\ mpc = "poll"
    /\ mcur = NoMail
    /\ handed = {}
    /\ dequeued = <<>>
    /\ cleaned = {}
    /\ lastEnq = NoEnq
    /\ submitted = <<>>
    /\ dbfail = {}
    /\ quitSenderHandler = [w \in Senders |-> 0]
    /\ quitMonitorHandler = 0
    /\ call = NoCall

Tick ==
    /\ now < MaxTime
    /\ now' = now + 1
    /\ UNCHANGED <<messages, bodies, nextUid, nextBid, spc, scur, mpc, mcur,
                   handed, dequeued, cleaned, lastEnq,
                   submitted, dbfail, quitSenderHandler, quitMonitorHandler, call>>

\* enqueueMessage(app, req), one transaction.  The caller's view of the call
\* (lastEnq) is kept only where it is asked for.
enqueueMessageTx(req, fail, record) ==
        LET rs == expandPersonalization(req)
            k == enqueueMessagePersisted(Len(rs), fail)
        IN /\ nextUid - 1 + k <= MaxMsgs
           /\ messages' = messages @@ enqueueMessage1Messages(rs, k)
           /\ bodies' = bodies @@ enqueueMessage1Bodies(rs, k)
           /\ dequeued' = dequeued @@ [u \in nextUid..(nextUid + k - 1) |-> 0]
           /\ submitted' = submitted @@ [u \in nextUid..(nextUid + k - 1) |-> 0]
           /\ nextUid' = nextUid + k
           /\ nextBid' = nextBid + k
           /\ lastEnq' = IF record
                         THEN [req |-> req,
                               inserted |-> enqueueMessageInserted(Len(rs), fail),
                               err |-> fail.at # "none"]
                         ELSE lastEnq
           /\ UNCHANGED <<now, spc, scur, mpc, mcur, handed, cleaned,
                        dbfail, quitSenderHandler, quitMonitorHandler>>

enqueueMessage(record) ==
    \E req \in SendRequests :
      \E fail \in FailPoints(Len(req.personalizations)) :
        /\ enqueueMessageTx(req, fail, record)
        /\ UNCHANGED call

\* ------------------------------------------------------------ dequeue
\* mutant: the select takes the Sent messages for waiting ones as well
MutWaitingOrSent ==
    { u \in DOMAIN messages : messages[u].status \in {MessageWaiting, MessageSent} }

\* mutant: the select takes the Processing messages for waiting ones as well
MutWaitingOrProcessing ==
    { u \in DOMAIN messages : messages[u].status \in {MessageWaiting, MessageProcessing} }

\* mutant: the select takes the messages that were abandoned as well
MutWaitingOrAbandoned ==
    { u \in DOMAIN messages : messages[u].status \in {MessageWaiting, MessageAbandoned} }

Waiting == { u \in DOMAIN messages : messages[u].status = MessageWaiting }

\* mutant: no order by, any waiting row
MutDequeueSelectAny == { u \in DOMAIN messages : messages[u].status = MessageWaiting }

\* select uid from messages where status = $2 order by last_update limit 1
dequeueSelect ==
    { u \in Waiting : \A v \in Waiting : messages[u].last_update <= messages[v].last_update }

\* mutant: the row is returned, its status is not updated
MutDequeueUpdateNoClaim(u) == messages

\* update messages set status = $1 where uid in (...) returning ...
dequeueUpdate(u) == [messages EXCEPT ![u].status = MessageProcessing]

\* senderLoop calls dequeueMessage: the update ... returning statement
dequeueMessageClaim(w) ==
    /\ spc[w] = "loop"
    /\ ~selectQuit(quitSenderHandler[w])
    /\ \/ \* the statement fails: dequeueMessage returns the error
          /\ spc' = [spc EXCEPT ![w] = "sleep"]
          /\ scur' = [scur EXCEPT ![w] = Returned("dequeue error")]
          /\ UNCHANGED messages
       \/ \* sql.ErrNoRows: dequeueMessage returns nil, nil
          /\ dequeueSelect = {}
          /\ spc' = [spc EXCEPT ![w] = "sleep"]
          /\ scur' = [scur EXCEPT ![w] = Returned("dequeue none")]
          /\ UNCHANGED messages
       \/ \E u \in dequeueSelect :
            /\ messages' = dequeueUpdate(u)
            /\ scur' = [scur EXCEPT ![w] = [uid |-> u, bid |-> messages[u].bid, err |-> NoError]]
            /\ spc' = [spc EXCEPT ![w] = "body"]
    /\ UNCHANGED <<bodies, nextUid, nextBid, now, mpc, mcur, handed,
                   dequeued, cleaned, lastEnq,
                   submitted, dbfail, quitSenderHandler, quitMonitorHandler, call>>

\* dequeueMessage, second statement: select packet from bodies where bid = $1
dequeueMessageBody(w) ==
    /\ spc[w] = "body"
    /\ \/ \* the statement fails, or no row (the error is returned in both cases)
          /\ spc' = [spc EXCEPT ![w] = "sleep"]
          /\ scur' = [scur EXCEPT ![w] = Returned("dequeue error")]
          /\ dbfail' = dbfail \cup {scur[w].uid}
          /\ UNCHANGED dequeued
       \/ /\ scur[w].bid \in DOMAIN bodies
          /\ dequeued' = [dequeued EXCEPT ![scur[w].uid] = @ + 1]
          /\ spc' = [spc EXCEPT ![w] = "send"]
          /\ UNCHANGED <<scur, dbfail>>
    /\ UNCHANGED <<messages, bodies, nextUid, nextBid, now, mpc, mcur,
                   handed, cleaned, lastEnq,
                   submitted, quitSenderHandler, quitMonitorHandler, call>>

\* ------------------------------------------------------------- sender
\* sendMesg calls sendLocal: the SMTP session with the local MTA
sendLocal(w) ==
    /\ spc[w] = "send"
    /\ submitted' = [submitted EXCEPT ![scur[w].uid] = @ + 1]
    /\ \/ \* every step succeeded
          /\ handed' = handed \cup {scur[w].uid}
          /\ spc' = [spc EXCEPT ![w] = "sent"]
          /\ UNCHANGED scur
       \/ \* a step up to DATA failed: the MTA has not taken the mail
          /\ scur' = [scur EXCEPT ![w].err = SmtpError]
          /\ spc' = [spc EXCEPT ![w] = "abandon"]
          /\ UNCHANGED handed
       \/ \* the MTA took the mail and the deferred Quit failed
          /\ handed' = handed \cup {scur[w].uid}
          /\ scur' = [scur EXCEPT ![w].err = SmtpError]
          /\ spc' = [spc EXCEPT ![w] = "abandon"]
    /\ UNCHANGED <<messages, bodies, nextUid, nextBid, now, mpc, mcur,
                   dequeued, cleaned, lastEnq,
                   dbfail, quitSenderHandler, quitMonitorHandler, call>>

\* mutant: a failed message is queued again
MutAbandonUpdateRequeue(uid, errmsg) ==
    IF uid \in DOMAIN messages
    THEN [messages EXCEPT ![uid] = [@ EXCEPT !.status = MessageWaiting,
                                             !.last_error = errmsg,
                                             !.last_update = now]]
    ELSE messages

\* mutant: the reason is not written
MutAbandonUpdateNoError(uid, errmsg) ==
    IF uid \in DOMAIN messages
    THEN [messages EXCEPT ![uid] = [@ EXCEPT !.status = MessageAbandoned,
                                             !.last_update = now]]
    ELSE messages

\* update messages set status, last_error, last_update where uid = $4
abandonUpdate(uid, errmsg) ==
    IF uid \in DOMAIN messages
    THEN [messages EXCEPT ![uid] = [@ EXCEPT !.status = MessageAbandoned,
                                             !.last_error = errmsg,
                                             !.last_update = now]]
    ELSE messages

\* mutant: the timestamp is written, the status is not
MutSentUpdateKeepStatus(uid) ==
    IF uid \in DOMAIN messages
    THEN [messages EXCEPT ![uid] = [@ EXCEPT !.last_update = now]]
    ELSE messages

\* update messages set status, last_error = "", last_update where uid = $4
\* mutant: the search columns are emptied with the status update
MutSentUpdateClearFields(uid) ==
    IF uid \in DOMAIN messages
    THEN [messages EXCEPT ![uid] = [@ EXCEPT !.status = MessageSent,
                                             !.last_error = NoError,
                                             !.last_update = now,
                                             !.sender = "",
                                             !.receivers = <<>>,
                                             !.subject = ""]]
    ELSE messages

sentUpdate(uid) ==
    IF uid \in DOMAIN messages
    THEN [messages EXCEPT ![uid] = [@ EXCEPT !.status = MessageSent,
                                             !.last_error = NoError,
                                             !.last_update = now]]
    ELSE messages

\* cleanMessageBody: the rows of messages with the bid of message uid
cleanCount(uid) ==
    IF uid \in DOMAIN messages
    THEN Cardinality({ v \in DOMAIN messages : messages[v].bid = messages[uid].bid })
    ELSE 0

\* mutants: the count does not include the message itself; any count deletes
MutCleanDeleteNoOther(count) == count = 0
MutCleanDeleteAny(count) == count >= 1

cleanDelete(count) == count = 1

\* mutant: delete from bodies, without the where clause
MutCleanMessageBodyNoWhere(uid) ==
    IF cleanDelete(cleanCount(uid)) THEN <<>> ELSE bodies

\* cleanMessageBody: the bodies table after the committed transaction
cleanMessageBody(uid) ==
    IF cleanDelete(cleanCount(uid))
    THEN [b \in DOMAIN bodies \ {messages[uid].bid} |-> bodies[b]]
    ELSE bodies

\* sender w, abandonMessage: the update statement
senderAbandon(w) ==
    /\ spc[w] = "abandon"
    /\ \/ /\ messages' = abandonUpdate(scur[w].uid, scur[w].err)
          /\ spc' = [spc EXCEPT ![w] = "clean"]
          /\ UNCHANGED <<scur, dbfail>>
       \/ \* the statement fails: no cleanup, sendMesg returns both errors
          /\ spc' = [spc EXCEPT ![w] = "sleep"]
          /\ scur' = [scur EXCEPT ![w] = Returned("send error")]
          /\ dbfail' = dbfail \cup {scur[w].uid}
          /\ UNCHANGED messages
    /\ UNCHANGED <<bodies, nextUid, nextBid, now, mpc, mcur, handed,
                   dequeued, cleaned, lastEnq,
                   submitted, quitSenderHandler, quitMonitorHandler, call>>

\* sender w, sentMessage: the update statement
senderSent(w) ==
    /\ spc[w] = "sent"
    /\ \/ /\ messages' = sentUpdate(scur[w].uid)
          /\ spc' = [spc EXCEPT ![w] = "clean"]
          /\ UNCHANGED <<scur, dbfail>>
       \/ /\ spc' = [spc EXCEPT ![w] = "sleep"]
          /\ scur' = [scur EXCEPT ![w] = Returned("send error")]
          /\ dbfail' = dbfail \cup {scur[w].uid}
          /\ UNCHANGED messages
    /\ UNCHANGED <<bodies, nextUid, nextBid, now, mpc, mcur, handed,
                   dequeued, cleaned, lastEnq,
                   submitted, quitSenderHandler, quitMonitorHandler, call>>

\* sender w, cleanMessageBody: one transaction; sendMesg returns
senderClean(w) ==
    /\ spc[w] = "clean"
    /\ \/ /\ bodies' = cleanMessageBody(scur[w].uid)
          /\ cleaned' = cleaned \cup {scur[w].uid}
          /\ scur' = [scur EXCEPT ![w] =
                Returned(IF scur[w].err = NoError THEN "send ok" ELSE "send error")]
       \/ \* Begin, the query, the delete or Commit fails: rolled back
          /\ scur' = [scur EXCEPT ![w] = Returned("send error")]
          /\ UNCHANGED <<bodies, cleaned>>
    /\ spc' = [spc EXCEPT ![w] = "sleep"]
    /\ UNCHANGED <<messages, nextUid, nextBid, now, mpc, mcur, handed,
                   dequeued, lastEnq,
                   submitted, dbfail, quitSenderHandler, quitMonitorHandler, call>>

\* senderLoop: time.Sleep, then the next iteration
senderSleep(w) ==
    /\ spc[w] = "sleep"
    /\ spc' = [spc EXCEPT ![w] = "loop"]
    /\ scur' = [scur EXCEPT ![w] = NoRow]
    /\ UNCHANGED <<messages, bodies, nextUid, nextBid, now, mpc, mcur, handed,
                   dequeued, cleaned, lastEnq,
                   submitted, dbfail, quitSenderHandler, quitMonitorHandler, call>>

\* ------------------------------------------------------------ monitor
\* what the mailbox manager gives one monitor1 call: no unread mail, a fetch
\* that fails, a mail that does not parse, a parse that yields no message, a
\* mail with no failed message id; or a delivery report that names an id
MailCases == {"no unread", "fetch error", "parse error", "no mail", "unrelated"}
Report == "report"

\* mutant: every early return asks for the short wait
MutMonitor1EarlyShort(mail) == [processed |-> FALSE, waitus |-> ShortWait]

\* monitor1: the returns before getFailedMessageID yields an id
monitor1Early(mail) ==
    [processed |-> FALSE,
     waitus |-> IF mail \in {"no unread", "no mail"} THEN LongWait ELSE ShortWait]

\* monitor1 between getMessage and its return
InFlight(id) ==
    [uid |-> id, processed |-> FALSE, waitus |-> 0, mail |-> Report, dberr |-> FALSE]

\* monitorLoop after a monitor1 call: the values returned and, where the
\* caller keeps them, the mail and the id the call worked on and whether a
\* database statement failed
MonitorReturn(record, processed, waitus, mail, id, dberr) ==
    IF record
    THEN [uid |-> id, processed |-> processed, waitus |-> waitus,
          mail |-> mail, dberr |-> dberr]
    ELSE [uid |-> UnknownUid, processed |-> processed, waitus |-> waitus,
          mail |-> "-", dberr |-> FALSE]

\* SendRequest{}
ZeroSendRequest == [from |-> "", subject |-> "", personalizations |-> <<>>]

\* extractMessage: the packet column of the left join is null when no
\* bodies row has the bid of the message
extractMessage(uid) ==
    [found |-> TRUE, uid |-> uid, status |-> messages[uid].status,
     lastUpdate |-> messages[uid].last_update,
     packet |-> IF messages[uid].bid \in DOMAIN bodies
                THEN Unmarshal(bodies[messages[uid].bid])
                ELSE ZeroSendRequest]

\* sql.ErrNoRows: nil, nil
NoMessage(uid) ==
    [found |-> FALSE, uid |-> uid, status |-> MessageWaiting,
     lastUpdate |-> 0, packet |-> ZeroSendRequest]

\* mutant: an inner join, no row for a message without its body
MutGetMessageInnerJoin(uid) ==
    IF uid \in DOMAIN messages /\ messages[uid].bid \in DOMAIN bodies
    THEN extractMessage(uid)
    ELSE NoMessage(uid)

\* getMessage(app, uid): the row of the message, if any
getMessage(uid) ==
    IF uid \in DOMAIN messages
    THEN extractMessage(uid)
    ELSE NoMessage(uid)

\* monitor1 up to getMessage.  A delivery report names a mail the MTA had
\* accepted, or an id no message has.
monitorFetch(record) ==
    /\ mpc = "poll"
    /\ ~selectQuit(quitMonitorHandler)
    /\ \/ \E mail \in MailCases :
            /\ mcur' = MonitorReturn(record, monitor1Early(mail).processed,
                                     monitor1Early(mail).waitus, mail, UnknownUid, FALSE)
            /\ UNCHANGED mpc
       \/ \E id \in handed \cup {UnknownUid} :
            \/ \* getMessage fails: (false, 50)
               /\ mcur' = MonitorReturn(record, FALSE, ShortWait, Report, id, TRUE)
               /\ UNCHANGED mpc
            \/ \* no message has the id: (false, 50)
               /\ ~getMessage(id).found
               /\ mcur' = MonitorReturn(record, FALSE, ShortWait, Report, id, FALSE)
               /\ UNCHANGED mpc
            \/ /\ getMessage(id).found
               /\ mcur' = InFlight(id)
               /\ mpc' = "abandon"
    /\ UNCHANGED <<messages, bodies, nextUid, nextBid, now, spc, scur, handed,
                   dequeued, cleaned, lastEnq,
                   submitted, dbfail, quitSenderHandler, quitMonitorHandler, call>>

\* monitor1, abandonMessage(app, "Undeliverable"): the update statement
monitorAbandon(record) ==
    /\ mpc = "abandon"
    /\ \/ /\ messages' = abandonUpdate(mcur.uid, Undeliverable)
          /\ mpc' = "clean"
          /\ UNCHANGED mcur
       \/ \* the statement fails: (false, 50)
          /\ mpc' = "poll"
          /\ mcur' = MonitorReturn(record, FALSE, ShortWait, Report, mcur.uid, TRUE)
          /\ UNCHANGED messages
    /\ UNCHANGED <<bodies, nextUid, nextBid, now, spc, scur, handed,
                   dequeued, cleaned, lastEnq,
                   submitted, dbfail, quitSenderHandler, quitMonitorHandler, call>>

\* monitor1, cleanMessageBody: one transaction; monitor1 returns
monitorClean(record) ==
    /\ mpc = "clean"
    /\ \/ /\ bodies' = cleanMessageBody(mcur.uid)
          /\ cleaned' = cleaned \cup {mcur.uid}
          /\ mcur' = MonitorReturn(record, TRUE, ShortWait, Report, mcur.uid, FALSE)
       \/ \* rolled back: abandonMessage returns the error, (false, 50)
          /\ mcur' = MonitorReturn(record, FALSE, ShortWait, Report, mcur.uid, TRUE)
          /\ UNCHANGED <<bodies, cleaned>>
    /\ mpc' = "poll"
    /\ UNCHANGED <<messages, nextUid, nextBid, now, spc, scur, handed,
                   dequeued, lastEnq,
                   submitted, dbfail, quitSenderHandler, quitMonitorHandler, call>>

\* ------------------------------------------------------------ shutdown
\* app.quitSenderHandler <- true, app.quitMonitorHandler <- true: the channel
\* has room for one value; the signal is given once to a running loop
stopSender(w) ==
    /\ spc[w] # "exit"
    /\ quitSenderHandler[w] = 0
    /\ quitSenderHandler' = [quitSenderHandler EXCEPT ![w] = 1]
    /\ UNCHANGED <<messages, bodies, nextUid, nextBid, now, spc, scur, mpc, mcur,
                   handed, dequeued, cleaned, lastEnq, submitted, dbfail,
                   quitMonitorHandler, call>>

stopMonitor ==
    /\ mpc # "exit"
    /\ quitMonitorHandler = 0
    /\ quitMonitorHandler' = 1
    /\ UNCHANGED <<messages, bodies, nextUid, nextBid, now, spc, scur, mpc, mcur,
                   handed, dequeued, cleaned, lastEnq, submitted, dbfail,
                   quitSenderHandler, call>>

\* senderLoop: case <-app.quitSenderHandler: return
senderQuit(w) ==
    /\ spc[w] \in quitPoints
    /\ selectQuit(quitSenderHandler[w])
    /\ quitSenderHandler' = [quitSenderHandler EXCEPT ![w] = @ - 1]
    /\ spc' = [spc EXCEPT ![w] = "exit"]
    /\ UNCHANGED <<messages, bodies, nextUid, nextBid, now, scur, mpc, mcur,
                   handed, dequeued, cleaned, lastEnq, submitted, dbfail,
                   quitMonitorHandler, call>>

\* monitorLoop: case <-app.quitMonitorHandler: return
monitorQuit ==
    /\ mpc = "poll"
    /\ selectQuit(quitMonitorHandler)
    /\ quitMonitorHandler' = quitMonitorHandler - 1
    /\ mpc' = "exit"
    /\ UNCHANGED <<messages, bodies, nextUid, nextBid, now, spc, scur, mcur,
                   handed, dequeued, cleaned, lastEnq, submitted, dbfail,
                   quitSenderHandler, call>>

\* the whole service: API callers, the sender loops, the bounce monitor
Next ==
    \/ Tick
    \/ enqueueMessage(FALSE)
    \/ \E w \in Senders : dequeueMessageClaim(w)
    \/ \E w \in Senders : dequeueMessageBody(w)
    \/ \E w \in Senders : sendLocal(w)
    \/ \E w \in Senders : senderAbandon(w)
    \/ \E w \in Senders : senderSent(w)
    \/ \E w \in Senders : senderClean(w)
    \/ \E w \in Senders : senderSleep(w)
    \/ monitorFetch(FALSE)
    \/ monitorAbandon(FALSE)
    \/ monitorClean(FALSE)

Spec == Init /\ [][Next]_vars

\* the queue alone, as message_integ_test.go drives it: callers of
\* enqueueMessage, whose results are recorded, and of dequeueMessage
NextQueue ==
    \/ Tick
    \/ enqueueMessage(TRUE)
    \/ \E w \in Senders : dequeueMessageClaim(w)
    \/ \E w \in Senders : dequeueMessageBody(w)
    \/ \E w \in Senders : senderSleep(w)

SpecQueue == Init /\ [][NextQueue]_vars

\* the service with a caller of monitor1 that keeps what each call worked on
\* and returned, as monitor_test.go does
NextMonitor ==
    \/ enqueueMessage(FALSE)
    \/ \E w \in Senders : dequeueMessageClaim(w)
    \/ \E w \in Senders : dequeueMessageBody(w)
    \/ \E w \in Senders : sendLocal(w)
    \/ \E w \in Senders : senderAbandon(w)
    \/ \E w \in Senders : senderSent(w)
    \/ \E w \in Senders : senderClean(w)
    \/ \E w \in Senders : senderSleep(w)
    \/ monitorFetch(TRUE)
    \/ monitorAbandon(TRUE)
    \/ monitorClean(TRUE)

SpecMonitor == Init /\ [][NextMonitor]_vars

\* the queue and the senders alone, as sender_test.go drives them: no monitor
\* loop runs
NextSender ==
    \/ Tick
    \/ enqueueMessage(FALSE)
    \/ \E w \in Senders : dequeueMessageClaim(w)
    \/ \E w \in Senders : dequeueMessageBody(w)
    \/ \E w \in Senders : sendLocal(w)
    \/ \E w \in Senders : senderAbandon(w)
    \/ \E w \in Senders : senderSent(w)
    \/ \E w \in Senders : senderClean(w)
    \/ \E w \in Senders : senderSleep(w)

SpecSender == Init /\ [][NextSender]_vars

\* the service and the owner of the two loops, who stops them
senderStep(w) ==
    \/ dequeueMessageClaim(w)
    \/ dequeueMessageBody(w)
    \/ sendLocal(w)
    \/ senderAbandon(w)
    \/ senderSent(w)
    \/ senderClean(w)
    \/ senderSleep(w)
    \/ senderQuit(w)

monitorStep ==
    \/ monitorFetch(FALSE)
    \/ monitorAbandon(FALSE)
    \/ monitorClean(FALSE)
    \/ monitorQuit

\* one request of one personalization has been enqueued
InitStop ==
    /\ messages = [u \in {1} |->
          enqueueMessage1Row(SampleRequest(1), 1, 0)]
    /\ bodies = [b \in {1} |-> Marshal(SampleRequest(1))]
    /\ nextUid = 2
    /\ nextBid = 2
    /\ now = 0
    /\ spc = [w \in Senders |-> "loop"]
    /\ scur = [w \in Senders |-> NoRow]
    /\ mpc = "poll"
    /\ mcur = NoMail
    /\ handed = {}
    /\ dequeued = [u \in {1} |-> 0]
    /\ cleaned = {}
    /\ lastEnq = NoEnq
    /\ submitted = [u \in {1} |-> 0]
    /\ dbfail = {}
    /\ quitSenderHandler = [w \in Senders |-> 0]
    /\ quitMonitorHandler = 0
    /\ call = NoCall

NextStop ==
    \/ \E w \in Senders : senderStep(w)
    \/ monitorStep
    \/ \E w \in Senders : stopSender(w)
    \/ stopMonitor

\* the goroutine of a loop keeps running and every operation it waits for
\* terminates
SpecStop ==
    /\ InitStop
    /\ [][NextStop]_vars
    /\ \A w \in Senders : WF_vars(senderStep(w))
    /\ WF_vars(monitorStep)
\* a store in which two messages reference one body: the schema allows it
\* (bid is no key), enqueueMessage never produces it
InitShared ==
    /\ messages = [u \in {1, 2} |->
          enqueueMessage1Row(SampleRequest(1), 1, 0)]
    /\ bodies = [b \in {1} |-> Marshal(SampleRequest(1))]
    /\ nextUid = 3
    /\ nextBid = 2
    /\ now = 0
    /\ spc = [w \in Senders |-> "loop"]
    /\ scur = [w \in Senders |-> NoRow]
    /\ mpc = "poll"
    /\ mcur = NoMail
    /\ handed = {}
    /\ dequeued = [u \in {1, 2} |-> 0]
    /\ cleaned = {}
    /\ lastEnq = NoEnq
    /\ submitted = [u \in {1, 2} |-> 0]
    /\ dbfail = {}
    /\ quitSenderHandler = [w \in Senders |-> 0]
    /\ quitMonitorHandler = 0
    /\ call = NoCall

SpecShared == InitShared /\ [][Next]_vars

\* the senders draining the queue: no loop is stopped, every iteration of a
\* sender loop ends, and the database does not refuse every claim
senderRun(w) ==
    \/ dequeueMessageClaim(w)
    \/ dequeueMessageBody(w)
    \/ sendLocal(w)
    \/ senderAbandon(w)
    \/ senderSent(w)
    \/ senderClean(w)
    \/ senderSleep(w)

\* the update ... returning statement of dequeueMessage returns a row
dequeueMessageClaimed(w) == dequeueMessageClaim(w) /\ spc'[w] = "body"

SpecDrain ==
    /\ Init
    /\ [][NextSender]_vars
    /\ \A w \in Senders : WF_vars(senderRun(w))
    /\ \A w \in Senders : SF_vars(dequeueMessageClaimed(w))

\* monitor1(app, mailbox, waitus) as monitor_test.go calls it: one call from
\* its first statement to its return
monitor1(record) ==
    /\ mpc = "poll"
    /\ ~selectQuit(quitMonitorHandler)
    /\ \/ \E mail \in MailCases :
            /\ mcur' = MonitorReturn(record, monitor1Early(mail).processed,
                                     monitor1Early(mail).waitus, mail, UnknownUid, FALSE)
            /\ UNCHANGED <<messages, bodies, cleaned>>
       \/ \E id \in handed \cup {UnknownUid} :
            \/ \* getMessage fails: (false, 50)
               /\ mcur' = MonitorReturn(record, FALSE, ShortWait, Report, id, TRUE)
               /\ UNCHANGED <<messages, bodies, cleaned>>
            \/ \* no message has the id: (false, 50)
               /\ ~getMessage(id).found
               /\ mcur' = MonitorReturn(record, FALSE, ShortWait, Report, id, FALSE)
               /\ UNCHANGED <<messages, bodies, cleaned>>
            \/ \* the update statement of abandonMessage fails: (false, 50)
               /\ getMessage(id).found
               /\ mcur' = MonitorReturn(record, FALSE, ShortWait, Report, id, TRUE)
               /\ UNCHANGED <<messages, bodies, cleaned>>
            \/ \* the update is committed, cleanMessageBody is rolled back:
               \* (false, 50)
               /\ getMessage(id).found
               /\ messages' = abandonUpdate(id, Undeliverable)
               /\ mcur' = MonitorReturn(record, FALSE, ShortWait, Report, id, TRUE)
               /\ UNCHANGED <<bodies, cleaned>>
            \/ \* both are committed: (true, 50)
               /\ getMessage(id).found
               /\ messages' = abandonUpdate(id, Undeliverable)
               /\ bodies' = cleanMessageBody(id)
               /\ cleaned' = cleaned \cup {id}
               /\ mcur' = MonitorReturn(record, TRUE, ShortWait, Report, id, FALSE)
    /\ UNCHANGED <<nextUid, nextBid, now, spc, scur, mpc, handed,
                   dequeued, lastEnq,
                   submitted, dbfail, quitSenderHandler, quitMonitorHandler, call>>

\* the service with a caller of monitor1, one whole call at a time
NextBounce ==
    \/ Tick
    \/ enqueueMessage(FALSE)
    \/ \E w \in Senders : dequeueMessageClaim(w)
    \/ \E w \in Senders : dequeueMessageBody(w)
    \/ \E w \in Senders : sendLocal(w)
    \/ \E w \in Senders : senderAbandon(w)
    \/ \E w \in Senders : senderSent(w)
    \/ \E w \in Senders : senderClean(w)
    \/ \E w \in Senders : senderSleep(w)
    \/ monitor1(FALSE)

SpecBounce == Init /\ [][NextBounce]_vars

\* a caller of getMessage, as sender_test.go has it after sendMesg: the
\* statement is a select, the store is not written
getMessageCall ==
    /\ \E uid \in 0..MaxMsgs :
          call' = [op |-> "getMessage", src |-> [family |-> "lookup"],
                   arg |-> uid, ret |-> getMessage(uid)]
    /\ UNCHANGED <<messages, bodies, nextUid, nextBid, now, spc, scur, mpc, mcur,
                   handed, dequeued, cleaned, lastEnq,
                   submitted, dbfail, quitSenderHandler, quitMonitorHandler>>

NextLookup ==
    \/ enqueueMessage(FALSE)
    \/ \E w \in Senders : dequeueMessageClaim(w)
    \/ \E w \in Senders : dequeueMessageBody(w)
    \/ \E w \in Senders : sendLocal(w)
    \/ \E w \in Senders : senderAbandon(w)
    \/ \E w \in Senders : senderSent(w)
    \/ \E w \in Senders : senderClean(w)
    \/ \E w \in Senders : senderSleep(w)
    \/ getMessageCall

SpecLookup == Init /\ [][NextLookup]_vars

\* ------------------------------------------------------ query language
\* A Go string is the sequence of its bytes; a byte is a one-character string.
QueryLeaf == 0
QueryAnd == 1
QueryOr == 2

QuerySender == 0
QueryReceiver == 1
QuerySubject == 2
QueryStatus == 3
QueryMessageId == 4

QueryEqual == 0
QueryNotEqual == 1

Quote == "\""
Backslash == "\\"
Newline == "\n"

\* \s of the regexp package
Whitespace == {"\t", "\n", "\f", "\r", " "}

\* \w of the regexp package, the class \b is defined by
WordChars ==
    {"0", "1", "2", "3", "4", "5", "6", "7", "8", "9", "_",
     "a", "b", "c", "d", "e", "f", "g", "h", "i", "j", "k", "l", "m",
     "n", "o", "p", "q", "r", "s", "t", "u", "v", "w", "x", "y", "z",
     "A", "B", "C", "D", "E", "F", "G", "H", "I", "J", "K", "L", "M",
     "N", "O", "P", "Q", "R", "S", "T", "U", "V", "W", "X", "Y", "Z"}

\* validQueryKinds, without the ^ and the \b of each pattern
validQueryKinds ==
    <<<<"f", "r", "o", "m", "_", "e", "m", "a", "i", "l">>,
      <<"t", "o", "_", "e", "m", "a", "i", "l">>,
      <<"s", "u", "b", "j", "e", "c", "t">>,
      <<"s", "t", "a", "t", "u", "s">>,
      <<"m", "s", "g", "_", "i", "d">>>>

\* validOperators, without the ^ of each pattern
validOperators == <<<<"=">>, <<"!", "=">>>>

ConjAnd == <<"A", "N", "D">>
ConjOr == <<"O", "R">>

\* input[n:]
Drop(input, n) == SubSeq(input, n + 1, Len(input))

\* strings.HasPrefix
HasPrefix(input, prefix) ==
    /\ Len(input) >= Len(prefix)
    /\ SubSeq(input, 1, Len(prefix)) = prefix

\* AppErr(code, message); nil is the error with code 0
AppErr(code, message) == [code |-> code, message |-> message]
NoAppErr == AppErr(0, <<>>)
\* nil, where the messages are texts of the source
NoAppErrText == AppErr(0, "")

\* the nil QNode
NilNode == [nil |-> TRUE]
QLeaf(kind, op, value) == [qtype |-> QueryLeaf, kind |-> kind, op |-> op, value |-> value]
QExpr(qtype, a, b) == [qtype |-> qtype, a |-> a, b |-> b]

RECURSIVE skipws(_)
skipws(input) ==
    IF input # <<>> /\ Head(input) \in Whitespace
    THEN skipws(Tail(input))
    ELSE input

take(input, n) ==
    IF Len(input) <= n
    THEN input
    ELSE SubSeq(input, 1, n) \o <<" ", ".", ".", ".">>

InvalidQueryNear == <<"I", "n", "v", "a", "l", "i", "d", " ", "q", "u", "e", "r", "y", " ", "n", "e", "a", "r", " ", "\"">>

badmsg(input) == AppErr(400, InvalidQueryNear \o take(input, 20))

parseQueryConj(input) ==
    LET in == skipws(input)
    IN IF in = <<>>
       THEN [conj |-> "", rest |-> <<>>, err |-> NoAppErr]
       ELSE IF HasPrefix(in, ConjAnd)
       THEN [conj |-> "AND", rest |-> Drop(in, Len(ConjAnd)), err |-> NoAppErr]
       ELSE IF HasPrefix(in, ConjOr)
       THEN [conj |-> "OR", rest |-> Drop(in, Len(ConjOr)), err |-> NoAppErr]
       ELSE [conj |-> "", rest |-> <<>>, err |-> badmsg(in)]

\* ^name\b matches: the name is a prefix and no word character follows it
MatchesKind(input, name) ==
    /\ HasPrefix(input, name)
    /\ Len(input) > Len(name) => input[Len(name) + 1] \notin WordChars

parseQueryKind(input) ==
    LET found == { k \in 1..Len(validQueryKinds) : MatchesKind(input, validQueryKinds[k]) }
    IN IF found = {}
       THEN [kind |-> 0, rest |-> <<>>, err |-> badmsg(input)]
       ELSE LET k == CHOOSE k \in found : \A j \in found : k <= j
            IN [kind |-> k - 1, rest |-> Drop(input, Len(validQueryKinds[k])), err |-> NoAppErr]

parseOperator(input) ==
    LET found == { k \in 1..Len(validOperators) : HasPrefix(input, validOperators[k]) }
    IN IF found = {}
       THEN [op |-> 0, rest |-> <<>>, err |-> badmsg(input)]
       ELSE LET k == CHOOSE k \in found : \A j \in found : k <= j
            IN [op |-> k - 1, rest |-> Drop(input, Len(validOperators[k])), err |-> NoAppErr]

\* ([^"]|\\")*" matched from byte i as the regexp package matches it, the
\* first alternative before the second and another round of the star
\* before its end: the index of the closing quote, 0 when nothing matches
RECURSIVE valueEnd(_, _)
valueEnd(input, i) ==
    IF i > Len(input)
    THEN 0
    ELSE LET first == IF input[i] # Quote THEN valueEnd(input, i + 1) ELSE 0
         IN IF first # 0
            THEN first
            ELSE LET second == IF /\ input[i] = Backslash
                                  /\ i + 1 <= Len(input)
                                  /\ input[i + 1] = Quote
                               THEN valueEnd(input, i + 2)
                               ELSE 0
                 IN IF second # 0
                    THEN second
                    ELSE IF input[i] = Quote THEN i ELSE 0

\* ReplaceAllString of \\(.) by $1; the dot matches no newline
RECURSIVE unescape(_)
unescape(s) ==
    IF s = <<>>
    THEN <<>>
    ELSE IF Head(s) = Backslash /\ Len(s) >= 2 /\ s[2] # Newline
    THEN <<s[2]>> \o unescape(Drop(s, 2))
    ELSE <<Head(s)>> \o unescape(Tail(s))

parseValue(input) ==
    LET end == IF input # <<>> /\ Head(input) = Quote THEN valueEnd(input, 2) ELSE 0
    IN IF end # 0
       THEN [value |-> unescape(SubSeq(input, 2, end - 1)),
             rest |-> Drop(input, end), err |-> NoAppErr]
       ELSE [value |-> <<>>, rest |-> <<>>, err |-> badmsg(input)]

parseQuerySimple(input) ==
    LET k == parseQueryKind(skipws(input))
        o == parseOperator(skipws(k.rest))
        v == parseValue(skipws(o.rest))
    IN IF k.err # NoAppErr
       THEN [node |-> NilNode, rest |-> <<>>, err |-> k.err]
       ELSE IF o.err # NoAppErr
       THEN [node |-> NilNode, rest |-> <<>>, err |-> o.err]
       ELSE IF v.err # NoAppErr
       THEN [node |-> NilNode, rest |-> <<>>, err |-> v.err]
       ELSE [node |-> QLeaf(k.kind, o.op, v.value), rest |-> v.rest, err |-> NoAppErr]

RECURSIVE parseQueryExpr(_), parseQueryExprLoop(_, _)

\* mutant: the right operand of a conjunction is one simple expression
RECURSIVE MutParseQueryExprLoopLeft(_, _)
MutParseQueryExprLoopLeft(qa, input) ==
    LET c == parseQueryConj(input)
    IN IF c.err # NoAppErr
       THEN [node |-> NilNode, rest |-> <<>>, err |-> c.err]
       ELSE IF c.conj = ""
       THEN [node |-> qa, rest |-> <<>>, err |-> NoAppErr]
       ELSE LET qb == parseQuerySimple(c.rest)
            IN IF qb.err # NoAppErr
               THEN [node |-> NilNode, rest |-> <<>>, err |-> qb.err]
               ELSE MutParseQueryExprLoopLeft(
                        QExpr(IF c.conj = "AND" THEN QueryAnd ELSE QueryOr, qa, qb.node),
                        qb.rest)

\* the for loop of parseQueryExpr, entered with qa and the input left
parseQueryExprLoop(qa, input) ==
    LET c == parseQueryConj(input)
    IN IF c.err # NoAppErr
       THEN [node |-> NilNode, rest |-> <<>>, err |-> c.err]
       ELSE IF c.conj = ""
       THEN [node |-> qa, rest |-> <<>>, err |-> NoAppErr]
       ELSE LET qb == parseQueryExpr(c.rest)
            IN IF qb.err # NoAppErr
               THEN [node |-> NilNode, rest |-> <<>>, err |-> qb.err]
               ELSE parseQueryExprLoop(
                        QExpr(IF c.conj = "AND" THEN QueryAnd ELSE QueryOr, qa, qb.node),
                        qb.rest)

parseQueryExpr(input) ==
    LET qa == parseQuerySimple(input)
    IN IF qa.err # NoAppErr
       THEN [node |-> NilNode, rest |-> <<>>, err |-> qa.err]
       ELSE parseQueryExprLoop(qa.node, qa.rest)

parseQuery(input) ==
    LET q == parseQueryExpr(input)
    IN [node |-> q.node, err |-> q.err]

\* ------------------------------------------- query language under test
\* all sequences over S of at most n elements
SeqsUpTo(S, n) == UNION { [1..k -> S] : k \in 0..n }

\* a value as the query API document asks a client to write it: double
\* quotes and backslashes escaped with a backslash
RECURSIVE escapeValue(_)
escapeValue(v) ==
    IF v = <<>>
    THEN <<>>
    ELSE (IF Head(v) \in {Quote, Backslash} THEN <<Backslash, Head(v)>> ELSE <<Head(v)>>)
         \o escapeValue(Tail(v))

renderValue(v) == <<Quote>> \o escapeValue(v) \o <<Quote>>

renderLeaf(l, sp) ==
    validQueryKinds[l.kind + 1] \o sp \o validOperators[l.op + 1] \o sp \o renderValue(l.value)

renderConj(c) == IF c = QueryAnd THEN ConjAnd ELSE ConjOr

\* L1 c1 L2 c2 ... Ln
RECURSIVE renderChain(_, _, _)
renderChain(leaves, conjs, sp) ==
    IF Len(leaves) = 1
    THEN renderLeaf(leaves[1], sp)
    ELSE renderLeaf(leaves[1], sp) \o sp \o renderConj(conjs[1]) \o sp
         \o renderChain(Tail(leaves), Tail(conjs), sp)

\* c1(L1, c2(L2, ... Ln))
RECURSIVE RightFold(_, _)
RightFold(leaves, conjs) ==
    IF Len(leaves) = 1
    THEN leaves[1]
    ELSE QExpr(conjs[1], leaves[1], RightFold(Tail(leaves), Tail(conjs)))

RECURSIVE Concat(_)
Concat(pieces) ==
    IF pieces = <<>> THEN <<>> ELSE Head(pieces) \o Concat(Tail(pieces))

SampleLeaves ==
    { QLeaf(QuerySender, QueryEqual, <<"a">>),
      QLeaf(QueryReceiver, QueryNotEqual, <<"b">>),
      QLeaf(QuerySubject, QueryEqual, <<"c">>) }

Spacings == { <<>>, <<" ">> }

ChainCalls ==
    { [op |-> "parseQuery",
       src |-> [family |-> "chain", leaves |-> ls, conjs |-> cs],
       arg |-> renderChain(ls, cs, sp),
       ret |-> Pending] :
        <<ls, cs, sp>> \in
          { t \in SeqsUpTo(SampleLeaves, MaxLeaves)
                    \X SeqsUpTo({QueryAnd, QueryOr}, MaxLeaves - 1)
                    \X Spacings :
              Len(t[1]) >= 1 /\ Len(t[2]) = Len(t[1]) - 1 } }

ValueBytes == {"a", "n", Quote, Backslash}
ValueRests == { <<>>, <<" ", "O", "R">> }

ValueCalls ==
    { [op |-> "parseValue",
       src |-> [family |-> "value", value |-> v, rest |-> r],
       arg |-> renderValue(v) \o r,
       ret |-> Pending] :
        <<v, r>> \in SeqsUpTo(ValueBytes, MaxValueLen) \X ValueRests }

QueryPieces ==
    { <<"s", "u", "b", "j", "e", "c", "t">>,
      <<"=">>,
      <<"\"", "a", "\"">>,
      <<"s", "u", "b", "j", "e", "c", "t", "=", "\"", "a", "\"">>,
      <<" ">>,
      <<"A", "N", "D">>,
      <<"\"", "a", "\\", "\"">>,
      <<"x", "x", "x", "x", "x", "x", "x", "x", "x", "x">> }

PieceCalls ==
    { [op |-> "parseQuery",
       src |-> [family |-> "pieces", pieces |-> ps],
       arg |-> Concat(ps),
       ret |-> Pending] : ps \in SeqsUpTo(QueryPieces, MaxPieces) }

InitParse ==
    /\ Init!1 /\ Init!2 /\ Init!3 /\ Init!4 /\ Init!5 /\ Init!6 /\ Init!7
    /\ Init!8 /\ Init!9 /\ Init!10 /\ Init!11 /\ Init!12 /\ Init!13 /\ Init!14
    /\ Init!15 /\ Init!16 /\ Init!17
    /\ call \in ChainCalls \cup ValueCalls \cup PieceCalls

Idle ==
    UNCHANGED <<messages, bodies, nextUid, nextBid, now, spc, scur, mpc, mcur,
                handed, dequeued, cleaned, lastEnq, submitted, dbfail,
                quitSenderHandler, quitMonitorHandler>>

parseQueryCall ==
    /\ call.op = "parseQuery"
    /\ call.ret = Pending
    /\ call' = [call EXCEPT !.ret = parseQuery(call.arg)]
    /\ Idle

parseValueCall ==
    /\ call.op = "parseValue"
    /\ call.ret = Pending
    /\ call' = [call EXCEPT !.ret = parseValue(call.arg)]
    /\ Idle

NextParse ==
    \/ parseQueryCall
    \/ parseValueCall

SpecParse == InitParse /\ [][NextParse]_vars

\* -------------------------------------------------------- receiver search
\* strpos(string, substring) of PostgreSQL: the first position, 0 when absent
strpos(string, substring) ==
    LET at == { i \in 1..(Len(string) - Len(substring) + 1) :
                  SubSeq(string, i, i + Len(substring) - 1) = substring }
    IN IF at = {} THEN 0 ELSE CHOOSE i \in at : \A j \in at : i <= j

\* the condition buildQueryReceiver builds, on a row whose receivers column
\* holds receivers
buildQueryReceiver(ql, receivers) ==
    LET pos == strpos(receivers, <<Soh>> \o ql.value \o <<Soh>>)
    IN IF ql.op = QueryEqual THEN pos > 0 ELSE pos = 0

Emails == { <<>>, <<"a">>, <<"b">>, <<"a", "b">> }
Addrs == { [email |-> e] : e \in Emails }

SearchRequests ==
    { [personalizations |-> << [To |-> t, Cc |-> c, Bcc |-> b] >>] :
        <<t, c, b>> \in SeqsUpTo(Addrs, MaxTo) \X SeqsUpTo(Addrs, 1) \X SeqsUpTo(Addrs, 1) }

\* the values searched for: addresses, parts of addresses, and texts that
\* reach from one address into the next one of the receivers column
SearchValues ==
    Emails
    \cup { <<x, Soh, Comma, Soh, y>> : <<x, y>> \in {"a", "b"} \X {"a", "b"} }

SearchCalls ==
    { [op |-> "searchMessages",
       src |-> [family |-> "receiver", req |-> req],
       arg |-> QLeaf(QueryReceiver, o, v),
       ret |-> Pending] :
        <<req, o, v>> \in SearchRequests \X {QueryEqual, QueryNotEqual} \X SearchValues }

InitSearch ==
    /\ Init!1 /\ Init!2 /\ Init!3 /\ Init!4 /\ Init!5 /\ Init!6 /\ Init!7
    /\ Init!8 /\ Init!9 /\ Init!10 /\ Init!11 /\ Init!12 /\ Init!13 /\ Init!14
    /\ Init!15 /\ Init!16 /\ Init!17
    /\ call \in SearchCalls

\* the message of call.src.req is enqueued: does searchMessages select it?
searchMessagesCall ==
    /\ call.op = "searchMessages"
    /\ call.ret = Pending
    /\ call' = [call EXCEPT
                  !.ret = [matches |-> buildQueryReceiver(call.arg, receiverEmails(call.src.req))]]
    /\ Idle

NextSearch == searchMessagesCall

SpecSearch == InitSearch /\ [][NextSearch]_vars

\* ------------------------------------------------------- message encoder
\* The buffer getMessageBody fills is the sequence of the lines and blocks
\* written to it: header lines, the empty line, raw content, and the
\* delimiter lines of mime/multipart.
Hdr(name, text, addrs, boundary) ==
    [line |-> "header", name |-> name, text |-> text, addrs |-> addrs, boundary |-> boundary]
Blank == [line |-> "blank"]
Raw(text) == [line |-> "raw", text |-> text]
Delimiter(boundary) == [line |-> "delimiter", boundary |-> boundary]
Closing(boundary) == [line |-> "close", boundary |-> boundary]

TextPlain == "text/plain"
MultipartMixed == "multipart/mixed"
MultipartAlternative == "multipart/alternative"
ContentType == "Content-Type"

\* mWriter.Boundary() and aWriter.Boundary(): two random boundaries
OuterBoundary == "boundary-m"
InnerBoundary == "boundary-a"

\* one value of a header of the map p.Headers
HeaderValue(text, boundary) == [text |-> text, boundary |-> boundary]

\* the orders in which a range over the map p.Headers can visit its keys
HeaderNames == {"X-Tag", ContentType}
HeaderOrders == { o \in [1..Cardinality(HeaderNames) -> HeaderNames] : o[1] # o[2] }

\* p.Headers[name] = values
SetHeader(headers, name, values) ==
    [n \in DOMAIN headers \cup {name} |-> IF n = name THEN values ELSE headers[n]]

RECURSIVE headerValueLines(_, _)
headerValueLines(name, values) ==
    IF values = <<>>
    THEN <<>>
    ELSE <<Hdr(name, Head(values).text, <<>>, Head(values).boundary)>>
         \o headerValueLines(name, Tail(values))

\* for hname, hvals := range p.Headers { for _, hval := range hvals { ... } }
RECURSIVE headerLines(_, _)
headerLines(headers, order) ==
    IF order = <<>>
    THEN <<>>
    ELSE (IF Head(order) \in DOMAIN headers
          THEN headerValueLines(Head(order), headers[Head(order)])
          ELSE <<>>)
         \o headerLines(headers, Tail(order))

\* CreatePart(Content-Type: type) on the writer of a boundary, then Write
Part(boundary, type, typeBoundary, body) ==
    <<Delimiter(boundary), Hdr(ContentType, type, <<>>, typeBoundary), Blank>> \o body

DefaultType(type) == IF type = "" THEN TextPlain ELSE type

RECURSIVE contentParts(_, _)
contentParts(boundary, contents) ==
    IF contents = <<>>
    THEN <<>>
    ELSE Part(boundary, DefaultType(Head(contents).Type), "", <<Raw(Head(contents).Value)>>)
         \o contentParts(boundary, Tail(contents))

RECURSIVE attachmentParts(_, _)
attachmentParts(boundary, attachments) ==
    IF attachments = <<>>
    THEN <<>>
    ELSE Part(boundary, DefaultType(Head(attachments).Type), "", <<Raw(Head(attachments).Content)>>)
         \o attachmentParts(boundary, Tail(attachments))

getMultiContents(m, p, order) ==
    IF Len(m.packet.Attachments) > 0
    THEN headerLines(SetHeader(p.Headers, ContentType,
                               <<HeaderValue(MultipartMixed, OuterBoundary)>>), order)
         \o <<Blank>>
         \o Part(OuterBoundary, MultipartAlternative, InnerBoundary,
                 contentParts(InnerBoundary, m.packet.Content) \o <<Closing(InnerBoundary)>>)
         \o attachmentParts(OuterBoundary, m.packet.Attachments)
         \o <<Closing(OuterBoundary)>>
    ELSE headerLines(SetHeader(p.Headers, ContentType,
                               <<HeaderValue(MultipartAlternative, OuterBoundary)>>), order)
         \o <<Blank>>
         \o contentParts(OuterBoundary, m.packet.Content)
         \o <<Closing(OuterBoundary)>>

\* mutant: the type of the single part is written whenever it is given
MutGetSingleContentAnyType(m, p, order) ==
    LET c == m.packet.Content[1]
        headers == IF c.Type # ""
                   THEN SetHeader(p.Headers, ContentType, <<HeaderValue(c.Type, "")>>)
                   ELSE p.Headers
    IN headerLines(headers, order) \o <<Blank, Raw(c.Value)>>

getSingleContent(m, p, order) ==
    LET c == m.packet.Content[1]
        headers == IF c.Type # "" /\ c.Type # TextPlain
                   THEN SetHeader(p.Headers, ContentType, <<HeaderValue(c.Type, "")>>)
                   ELSE p.Headers
    IN headerLines(headers, order) \o <<Blank, Raw(c.Value)>>

\* the items addresseesFieldValue joins with ", "; the names of the model
\* are ASCII, which mime.BEncoding.Encode leaves as they are
addresseesFieldValue(addressees) ==
    [i \in 1..Len(addressees) |->
        [name |-> addressees[i].name, email |-> addressees[i].email]]

getMessageBody(m, order) ==
    LET p == m.packet.personalizations[1]
    IN <<Hdr("From", "", addresseesFieldValue(<<m.packet.from>>), "")>>
       \o (IF Len(p.To) > 0 THEN <<Hdr("To", "", addresseesFieldValue(p.To), "")>> ELSE <<>>)
       \o (IF Len(p.Cc) > 0 THEN <<Hdr("Cc", "", addresseesFieldValue(p.Cc), "")>> ELSE <<>>)
       \o (IF Len(p.Bcc) > 0 THEN <<Hdr("Bcc", "", addresseesFieldValue(p.Bcc), "")>> ELSE <<>>)
       \o <<Hdr("Subject", IF p.Subject # "" THEN p.Subject ELSE m.packet.subject, <<>>, "")>>
       \o <<Hdr("Message-Id", m.uid, <<>>, "")>>
       \o (IF Len(m.packet.Content) > 1
           THEN getMultiContents(m, p, order)
           ELSE IF Len(m.packet.Content) = 1
           THEN getSingleContent(m, p, order)
           ELSE <<>>)

\* The map m.packet.Personalizations[0].Headers when getMessageBody has
\* returned.  p is a copy of the Personalization and p.Headers is the map of
\* the message itself, unless that is nil: then getMultiContents and
\* getSingleContent make a map of their own.
personalizationHeaders(m) ==
    LET p == m.packet.personalizations[1]
    IN IF p.nilHeaders
       THEN p.Headers
       ELSE IF Len(m.packet.Content) > 1
       THEN SetHeader(p.Headers, ContentType,
                      <<HeaderValue(IF Len(m.packet.Attachments) > 0
                                    THEN MultipartMixed ELSE MultipartAlternative,
                                    OuterBoundary)>>)
       ELSE IF /\ Len(m.packet.Content) = 1
               /\ m.packet.Content[1].Type # ""
               /\ m.packet.Content[1].Type # TextPlain
       THEN SetHeader(p.Headers, ContentType, <<HeaderValue(m.packet.Content[1].Type, "")>>)
       ELSE p.Headers

\* the Message when getMessageBody has returned
messageAfterBody(m) ==
    [m EXCEPT !.packet.personalizations[1].Headers = personalizationHeaders(m)]

\* the messages encoded
Contents == { [Type |-> t, Value |-> "Plain text"] : t \in {"", TextPlain, "text/html"} }
Attachments == { [Type |-> t, Content |-> "base64content"] : t \in {"", "image/png"} }
NoHeaders == [n \in {} |-> <<>>]
HeaderMaps ==
    { NoHeaders,
      [n \in {"X-Tag"} |-> <<HeaderValue("v", "")>>],
      [n \in {ContentType} |-> <<HeaderValue("text/custom", "")>>] }
\* the field Headers of a Personalization: the nil map (no "headers" in the
\* request), which reads as the empty map, or a map
HeaderFields ==
    { [isNil |-> TRUE, map |-> NoHeaders] }
    \cup { [isNil |-> FALSE, map |-> h] : h \in HeaderMaps }
ToLists == { <<>>, <<[name |-> "", email |-> "to@example.com"]>> }

EncodeMessages ==
    { [uid |-> "test-uid@local",
       packet |-> [from |-> [name |-> "", email |-> "from@example.com"],
                   subject |-> "Test Subject",
                   personalizations |->
                       << [To |-> to, Cc |-> <<>>, Bcc |-> <<>>, Subject |-> s,
                           Headers |-> h.map, nilHeaders |-> h.isNil] >>,
                   Content |-> cs,
                   Attachments |-> as]] :
        <<to, s, h, cs, as>> \in
            ToLists \X {"", "Hello"} \X HeaderFields
              \X SeqsUpTo(Contents, MaxContents) \X SeqsUpTo(Attachments, MaxAttachments) }

EncodeCalls ==
    { [op |-> "getMessageBody", src |-> [family |-> "encode"], arg |-> m, ret |-> Pending] :
        m \in EncodeMessages }

InitEncode ==
    /\ Init!1 /\ Init!2 /\ Init!3 /\ Init!4 /\ Init!5 /\ Init!6 /\ Init!7
    /\ Init!8 /\ Init!9 /\ Init!10 /\ Init!11 /\ Init!12 /\ Init!13 /\ Init!14
    /\ Init!15 /\ Init!16 /\ Init!17
    /\ call \in EncodeCalls

getMessageBodyCall ==
    /\ call.op = "getMessageBody"
    /\ call.ret = Pending
    /\ \E order \in HeaderOrders :
         call' = [call EXCEPT !.ret = [bytes |-> getMessageBody(call.arg, order),
                                       message |-> messageAfterBody(call.arg)]]
    /\ Idle

NextEncode == getMessageBodyCall

SpecEncode == InitEncode /\ [][NextEncode]_vars

\* ---------------------------------------------------------- status search
\* the switch of buildQueryStatus over ql.value; st := 0 when no case matches
statusValue(value) ==
    CASE value = "waiting" -> MessageWaiting
      [] value = "processing" -> MessageProcessing
      [] value = "sent" -> MessageSent
      [] value = "abandoned" -> MessageAbandoned
      [] OTHER -> 0

\* mutant: a name that is no status name matches no row
MutBuildQueryStatusNoMatch(ql, status) ==
    IF ql.value \in {"waiting", "processing", "sent", "abandoned"}
    THEN IF ql.op = QueryEqual
         THEN status = statusValue(ql.value)
         ELSE status # statusValue(ql.value)
    ELSE FALSE

\* the condition buildQueryStatus builds, status = $n or status <> $n, on a
\* row of status status
buildQueryStatus(ql, status) ==
    IF ql.op = QueryEqual
    THEN status = statusValue(ql.value)
    ELSE status # statusValue(ql.value)

\* the literals searched for: the status names and other texts
StatusLiterals == {"waiting", "processing", "sent", "abandoned", "x", "Waiting", ""}

\* the status column of the rows of messages, uid 1 .. n
StatusTables ==
    UNION { [1..n -> {MessageWaiting, MessageProcessing, MessageSent, MessageAbandoned}] :
              n \in 0..MaxRows }

StatusCalls ==
    { [op |-> "searchMessages",
       src |-> [family |-> "status", rows |-> rows],
       arg |-> QLeaf(QueryStatus, o, v),
       ret |-> Pending] :
        <<rows, o, v>> \in StatusTables \X {QueryEqual, QueryNotEqual} \X StatusLiterals }

InitStatus ==
    /\ Init!1 /\ Init!2 /\ Init!3 /\ Init!4 /\ Init!5 /\ Init!6 /\ Init!7
    /\ Init!8 /\ Init!9 /\ Init!10 /\ Init!11 /\ Init!12 /\ Init!13 /\ Init!14
    /\ Init!15 /\ Init!16 /\ Init!17
    /\ call \in StatusCalls

\* searchMessages without a limit on the rows of call.src.rows: the uids of
\* the rows selected; apperr is nil
searchMessagesStatusCall ==
    /\ call.op = "searchMessages"
    /\ call.ret = Pending
    /\ call' = [call EXCEPT
                  !.ret = [uids |-> { u \in DOMAIN call.src.rows :
                                        buildQueryStatus(call.arg, call.src.rows[u]) },
                           apperr |-> NoAppErrText]]
    /\ Idle

NextStatus == searchMessagesStatusCall

SpecStatus == InitStatus /\ [][NextStatus]_vars

\* ------------------------------------------------------------- REST API
Bearer == <<"B", "e", "a", "r", "e", "r">>
Sp == " "

\* app.config.AppIDs
AppIDs == { <<"k">>, <<"k", "x">> }

RECURSIVE skipSpaces(_)
skipSpaces(s) == IF s # <<>> /\ Head(s) = Sp THEN skipSpaces(Tail(s)) ELSE s

\* bearerRegexp.ReplaceAllString(s, "$1") for the pattern Bearer *(.*): the
\* leftmost match runs to the end of the header value, which holds no
\* newline, and is replaced by what follows "Bearer" and the blanks after it
RECURSIVE bearerReplaceAll(_)
bearerReplaceAll(s) ==
    IF s = <<>>
    THEN <<>>
    ELSE IF HasPrefix(s, Bearer)
    THEN skipSpaces(Drop(s, Len(Bearer)))
    ELSE <<Head(s)>> \o bearerReplaceAll(Tail(s))

\* mutant: any Authorization header passes
MutCheckApikeyAnyHeader(auth) ==
    IF Len(auth) = 0
    THEN AppErr(403, "no api key given")
    ELSE NoAppErrText

\* checkApikey; auth is r.Header["Authorization"], the values of the header
checkApikey(auth) ==
    IF Len(auth) = 0
    THEN AppErr(403, "no api key given")
    ELSE IF bearerReplaceAll(auth[1]) \in AppIDs
    THEN NoAppErrText
    ELSE AppErr(403, "unrecognized api key")

AuthPieces == { Bearer, <<Sp>>, <<"k">>, <<"x">> }

\* the values of r.Header["Authorization"] of the requests made: none, the
\* texts put together from the pieces, and "Bearer " before a short key
AuthHeaders ==
    { <<>> }
    \cup { <<Concat(ps)>> : ps \in SeqsUpTo(AuthPieces, MaxAuthPieces) }
    \cup { <<Bearer \o <<Sp>> \o key>> : key \in SeqsUpTo({"k", "x", Sp}, MaxKeyLen) }

\* the body of a send request: a SendRequest, or a text json does not decode
BadJson == [json |-> "bad"]
RequestBodies == { [json |-> "ok", req |-> r] : r \in SendRequests } \cup { BadJson }

\* a finished request: the handler, the Authorization header, the code of
\* the response
Response(handler, auth, code) ==
    [op |-> handler, src |-> [family |-> "api"], arg |-> auth, ret |-> [code |-> code]]

Workers ==
    UNCHANGED <<now, spc, scur, mpc, mcur, handed, cleaned, dbfail,
                quitSenderHandler, quitMonitorHandler>>

Store == UNCHANGED <<messages, bodies, nextUid, nextBid, dequeued, submitted, lastEnq>>

\* POST /v3/mail/send
hMailSend ==
    \E auth \in AuthHeaders, body \in RequestBodies :
        IF checkApikey(auth) # NoAppErrText
        THEN /\ call' = Response("hMailSend", auth, checkApikey(auth).code)
             /\ Store /\ Workers
        ELSE IF body = BadJson
        THEN /\ call' = Response("hMailSend", auth, 400)
             /\ Store /\ Workers
        ELSE \E fail \in FailPoints(Len(body.req.personalizations)) :
               /\ enqueueMessageTx(body.req, fail, FALSE)
               /\ call' = Response("hMailSend", auth, IF fail.at = "none" THEN 202 ELSE 500)

\* GET /v3/messages: parseQuery and searchMessages read the store
hMessages ==
    \E auth \in AuthHeaders, code \in {200, 400, 500} :
        /\ call' = Response("hMessages", auth,
                            IF checkApikey(auth) # NoAppErrText
                            THEN checkApikey(auth).code
                            ELSE code)
        /\ Store /\ Workers

\* GET /v3/smtplog: reads the log of the MTA
hSMTPLog ==
    \E auth \in AuthHeaders, code \in {200, 400, 500} :
        /\ call' = Response("hSMTPLog", auth,
                            IF checkApikey(auth) # NoAppErrText
                            THEN checkApikey(auth).code
                            ELSE code)
        /\ Store /\ Workers

NextApi ==
    \/ hMailSend
    \/ hMessages
    \/ hSMTPLog

SpecApi == Init /\ [][NextApi]_vars

\* ------------------------------------------------------------- claims
Uids == DOMAIN messages
Status(u) == messages[u].status
Holding(w) == spc[w] \in {"body", "send", "sent", "abandon", "clean"}
Sharers(b) == { u \in Uids : messages[u].bid = b }

\* C1: at-most-one claim.  No message id is returned by dequeueMessage more
\* than once, and no two concurrent callers hold the same claimed row.
C1_AtMostOneClaim ==
    \A u \in Uids :
        /\ dequeued[u] <= 1
        /\ Cardinality({ w \in Senders : Holding(w) /\ scur[w].uid = u }) <= 1

\* one message exists; one caller has received it, another caller received none
C1_Witness ==
    /\ Cardinality(Uids) = 1
    /\ \E w1, w2 \in Senders :
        /\ spc[w1] = "send" /\ scur[w1].uid \in Uids /\ dequeued[scur[w1].uid] = 1
        /\ spc[w2] = "sleep" /\ scur[w2].err = "dequeue none"

\* C2 as stated: once a message is Sent, no step changes its status.
C2_SentIsTerminal ==
    [][\A u \in Uids : Status(u) = MessageSent => messages'[u].status = MessageSent]_vars

\* C2 amended: a Sent message changes status only by the bounce monitor's
\* abandonMessage, which makes it Abandoned with last_error "Undeliverable";
\* enqueue, dequeue and the senders never change it.
C2_SentLeftOnlyByBounce ==
    [][\A u \in Uids :
        (Status(u) = MessageSent /\ messages'[u].status # MessageSent)
        => /\ mpc = "abandon" /\ mcur.uid = u /\ mpc' = "clean"
           /\ messages'[u].status = MessageAbandoned
           /\ messages'[u].last_error = Undeliverable
           /\ spc' = spc]_vars

\* the monitor is about to abandon a message that a sender has marked Sent
C2_Witness ==
    \E u \in Uids : Status(u) = MessageSent /\ u \in cleaned /\ mpc = "abandon" /\ mcur.uid = u

\* C3: once a message is Abandoned, no step of the senders or the monitor
\* changes its status.
C3_AbandonedIsTerminal ==
    [][\A u \in Uids :
        Status(u) = MessageAbandoned => messages'[u].status = MessageAbandoned]_vars

\* C4: no step returns a message to Waiting, and a Waiting message is one that
\* no dequeue has claimed and no sender or monitor operation has touched.
C4_NeverBackToWaiting ==
    [][\A u \in Uids :
        /\ Status(u) # MessageWaiting => messages'[u].status # MessageWaiting
        /\ messages'[u].status = MessageWaiting
             => /\ dequeued'[u] = 0
                /\ u \notin cleaned' \cup handed'
                /\ \A w \in Senders : ~(Holding(w)' /\ scur'[w].uid = u)]_vars

\* a message went through dequeue, a failed send and abandonMessage
C4_Witness ==
    \E u \in Uids : Status(u) = MessageAbandoned /\ u \in cleaned /\ dequeued[u] = 1

\* C5: after sentMessage / abandonMessage has completed for the only message
\* that references a body, that body row is gone.
C5_SoleOwnerBodyDeleted ==
    \A u \in cleaned : cleanCount(u) = 1 => messages[u].bid \notin DOMAIN bodies

C5_Witness ==
    \E u \in cleaned :
        /\ cleanCount(u) = 1
        /\ Status(u) \in {MessageSent, MessageAbandoned}
        /\ messages[u].bid \notin DOMAIN bodies

C7_SharedBodyKept ==
    \A u, v \in Uids :
        (u # v /\ messages[u].bid = messages[v].bid /\ u \in cleaned /\ v \notin cleaned)
        => /\ messages[v].bid \in DOMAIN bodies
           /\ \A w \in Senders :
                (spc[w] = "body" /\ scur[w].uid = v) => scur[w].bid \in DOMAIN bodies

\* one of two sharing messages has completed, the other one has been dequeued
\* with its packet afterwards
C7_Witness ==
    \E u, v \in Uids :
        /\ u # v /\ messages[u].bid = messages[v].bid
        /\ u \in cleaned /\ Status(u) = MessageSent
        /\ v \notin cleaned /\ Status(v) = MessageProcessing
        /\ \E w \in Senders : spc[w] = "send" /\ scur[w].uid = v
        /\ messages[v].bid \in DOMAIN bodies

\* C8: a body row exists exactly when a message references it whose cleanup
\* has not completed; no body is an orphan, and every Waiting or Processing
\* message has its body.
C8_BodyInvariant ==
    /\ \A b \in 1..(nextBid - 1) :
          b \in DOMAIN bodies <=> \E u \in Uids : messages[u].bid = b /\ u \notin cleaned
    /\ DOMAIN bodies \subseteq 1..(nextBid - 1)
    /\ \A u \in Uids :
          Status(u) \in {MessageWaiting, MessageProcessing} => messages[u].bid \in DOMAIN bodies

\* one message completed and lost its body, another one still has its body
C8_Witness ==
    \E u, v \in Uids :
        /\ u \in cleaned /\ messages[u].bid \notin DOMAIN bodies
        /\ Status(v) = MessageProcessing /\ messages[v].bid \in DOMAIN bodies

\* a step of enqueueMessage, as its caller sees it
EnqueueStep == lastEnq' # lastEnq \/ nextUid' # nextUid

\* C9: batch atomicity.  An enqueueMessage call that returns an error leaves
\* the messages and bodies tables as they were.
C9_BatchAtomicity ==
    [][(EnqueueStep /\ lastEnq'.err) => (messages' = messages /\ bodies' = bodies)]_vars

\* a request of 3 personalizations failed at its 2nd one: no message exists
C9_Witness ==
    /\ lastEnq.err
    /\ Len(lastEnq.req.personalizations) = 3
    /\ lastEnq.inserted = 1
    /\ messages = <<>> /\ bodies = <<>>

\* C10: batch splitting.  A successful enqueueMessage of n personalizations
\* adds exactly n messages, all Waiting, with n fresh and distinct bodies, the
\* body of each holding the request with one personalization, one for each
\* personalization of the request; the other rows are unchanged.
C10_BatchSplitting ==
    [][(EnqueueStep /\ ~lastEnq'.err) =>
        LET req == lastEnq'.req
            n == Len(req.personalizations)
            new == DOMAIN messages' \ DOMAIN messages
            packetOf(u) == Unmarshal(bodies'[messages'[u].bid])
        IN /\ Cardinality(new) = n
           /\ \A u \in DOMAIN messages : messages'[u] = messages[u]
           /\ \A b \in DOMAIN bodies : b \in DOMAIN bodies' /\ bodies'[b] = bodies[b]
           /\ DOMAIN bodies' = DOMAIN bodies \cup { messages'[u].bid : u \in new }
           /\ \A u \in new :
                /\ messages'[u].status = MessageWaiting
                /\ messages'[u].bid \notin DOMAIN bodies
                /\ \A v \in DOMAIN messages' : v # u => messages'[v].bid # messages'[u].bid
                /\ Len(packetOf(u).personalizations) = 1
                /\ packetOf(u) = [req EXCEPT !.personalizations = packetOf(u).personalizations]
           /\ \A p \in { req.personalizations[i] : i \in 1..n } :
                Cardinality({ u \in new : packetOf(u).personalizations = <<p>> })
                  = Cardinality({ i \in 1..n : req.personalizations[i] = p })]_vars

\* a request of 2 personalizations succeeded: two Waiting messages, two bodies
C10_Witness ==
    /\ ~lastEnq.err
    /\ Len(lastEnq.req.personalizations) = 2
    /\ Cardinality(Uids) = 2
    /\ \A u \in Uids : Status(u) = MessageWaiting
    /\ Cardinality(DOMAIN bodies) = 2

\* a step in which dequeueMessage's update statement claims a row for w
Claims(w) == spc[w] = "loop" /\ spc'[w] = "body"

\* C11: FIFO claim order.  The row a dequeue claims was Waiting and no Waiting
\* message had a smaller last_update; so no message enqueued at an earlier
\* timestamp is still Waiting when a later one is claimed.
C11_FifoClaimOrder ==
    [][\A w \in Senders : Claims(w) =>
        LET u == scur'[w].uid
        IN /\ Status(u) = MessageWaiting
           /\ \A v \in Uids :
                Status(v) = MessageWaiting => messages[u].last_update <= messages[v].last_update
           /\ \A v \in Uids :
                messages[v].last_update < messages[u].last_update
                  => messages'[v].status # MessageWaiting]_vars

\* two messages enqueued at different times: the older one is claimed, the
\* newer one waits
C11_Witness ==
    \E u, v \in Uids :
        /\ messages[u].last_update < messages[v].last_update
        /\ Status(v) = MessageWaiting
        /\ \E w \in Senders : spc[w] = "body" /\ scur[w].uid = u

\* C12: no-op dequeue.  When no message is Waiting, a dequeueMessage call
\* claims nothing, leaves the messages and bodies tables as they are, and
\* returns none without an error (unless the database fails the statement).
C12_EmptyDequeue ==
    [][\A w \in Senders :
        (spc[w] = "loop" /\ spc'[w] # "loop" /\ \A u \in Uids : Status(u) # MessageWaiting)
        => /\ spc'[w] = "sleep"
           /\ scur'[w].err \in {"dequeue none", "dequeue error"}
           /\ scur'[w].uid = UnknownUid
           /\ messages' = messages
           /\ bodies' = bodies]_vars

\* messages exist, none is Waiting, and two calls in a row have returned none
C12_Witness ==
    /\ Uids # {}
    /\ \A u \in Uids : Status(u) # MessageWaiting
    /\ \A w \in Senders : spc[w] = "sleep" /\ scur[w].err = "dequeue none"

SendMesgReturns(w) == spc[w] = "clean" /\ spc'[w] = "sleep"

SentOk(u) == u \in handed /\ u \in cleaned /\ u \notin dbfail /\ messages[u].last_error = NoError

ReportReturns(u) ==
    /\ mpc' = "poll" /\ mcur'.mail = Report /\ mcur'.uid = u
    /\ (mpc # "poll" \/ mcur' # mcur)

\* C16: bounce correlation.  A monitor step that receives a delivery report
\* naming a message the MTA had accepted returns processed = true (unless a
\* database statement failed) and leaves the message Abandoned with
\* last_error "Undeliverable".
C16_BounceCorrelation ==
    [][\A u \in handed \cap Uids :
        ReportReturns(u) =>
            \/ mcur'.dberr
            \/ /\ mcur'.processed
               /\ messages'[u].status = MessageAbandoned
               /\ messages'[u].last_error = Undeliverable]_vars

\* C17: no retry.  No message is handed to sendLocal more than once, none is
\* returned by dequeueMessage more than once, and the row a dequeue claims
\* has never been submitted or returned before.
C17_NoRetry ==
    [][/\ \A u \in DOMAIN messages' : submitted'[u] <= 1 /\ dequeued'[u] <= 1
       /\ \A w \in Senders :
            Claims(w) => submitted[scur'[w].uid] = 0 /\ dequeued[scur'[w].uid] = 0]_vars

\* a submission failed, the message is Abandoned, and the dequeue after it
\* returned none
C17_Witness ==
    /\ Cardinality(Uids) = 1
    /\ \E u \in Uids :
        /\ Status(u) = MessageAbandoned /\ messages[u].last_error = SmtpError
        /\ submitted[u] = 1 /\ dequeued[u] = 1
    /\ \E w \in Senders : spc[w] = "sleep" /\ scur[w].err = "dequeue none"

\* C18: cancellation.  A loop whose quit channel holds a stop signal exits;
\* a loop that has exited stays so, and no dequeue and no mailbox poll starts
\* while the signal is in the channel.
C18_Cancellation ==
    /\ \A w \in Senders : (quitSenderHandler[w] = 1) ~> (spc[w] = "exit")
    /\ (quitMonitorHandler = 1) ~> (mpc = "exit")
    /\ [][/\ \A w \in Senders :
               /\ spc[w] = "exit" => spc'[w] = "exit"
               /\ (spc[w] = "loop" /\ spc'[w] \in {"body", "sleep"})
                    => quitSenderHandler[w] = 0
          /\ mpc = "exit" => mpc' = "exit"
          /\ (mpc = "poll" /\ (mpc' = "abandon" \/ mcur' # mcur))
               => quitMonitorHandler = 0]_vars

\* both loops were stopped and have exited, the sender after its delivery
C18_Witness ==
    /\ \A w \in Senders : spc[w] = "exit" /\ quitSenderHandler[w] = 0
    /\ mpc = "exit" /\ quitMonitorHandler = 0
    /\ \E u \in Uids : Status(u) = MessageSent

\* C19: graceful shutdown.  A sender loop exits only at the top of an
\* iteration, where it holds no message; a message that is Processing is held
\* by a running loop, unless a database statement failed for it.
C19_GracefulShutdown ==
    /\ [][\A w \in Senders :
            (spc[w] # "exit" /\ spc'[w] = "exit") => (spc[w] = "loop" /\ scur[w] = NoRow)]_vars
    /\ [](\A u \in Uids :
            Status(u) = MessageProcessing
              => \/ u \in dbfail
                 \/ \E w \in Senders : spc[w] # "exit" /\ Holding(w) /\ scur[w].uid = u)
    /\ [](\A u \in Uids :
            (dequeued[u] >= 1 /\ u \notin dbfail /\ \A w \in Senders : spc[w] = "exit")
              => Status(u) \in {MessageSent, MessageAbandoned})

\* the stop signal came while the sender was delivering; the sender has gone
\* on to mark the message Sent
C19_Witness ==
    \E w \in Senders :
        /\ quitSenderHandler[w] = 1 /\ spc[w] = "clean"
        /\ Status(scur[w].uid) = MessageSent /\ scur[w].uid \notin dbfail

\* C20: monitor step outcome table.  monitor1 returns (false, 500) when there
\* is no unread mail or the parse yields no message; (false, 50) on a fetch
\* error, a parse error, an empty failed message id or an id no message has;
\* (true, 50) only after abandonMessage has completed for the message found,
\* and (false, 50) for a message found only when a database statement failed.
C20_OutcomeTable ==
    (mpc = "poll" /\ mcur.mail # "-") =>
        /\ mcur.mail \in {"no unread", "no mail"}
             => ~mcur.processed /\ mcur.waitus = LongWait
        /\ mcur.mail \in {"fetch error", "parse error", "unrelated"}
             => ~mcur.processed /\ mcur.waitus = ShortWait
        /\ (mcur.mail = Report /\ mcur.uid \notin Uids)
             => ~mcur.processed /\ mcur.waitus = ShortWait
        /\ (mcur.mail = Report /\ mcur.uid \in Uids)
             => /\ mcur.waitus = ShortWait
                /\ mcur.processed <=> ~mcur.dberr
                /\ mcur.processed => mcur.uid \in cleaned

\* a step has returned (true, 50) for a message that is now Abandoned
C20_Witness ==
    /\ mpc = "poll" /\ mcur.mail = Report /\ mcur.processed /\ mcur.waitus = ShortWait
    /\ mcur.uid \in Uids /\ Status(mcur.uid) = MessageAbandoned
    /\ messages[mcur.uid].last_error = Undeliverable

\* what a parseQuery call answered for a conjunction chain
ChainParsed == call.op = "parseQuery" /\ call.src.family = "chain" /\ call.ret # Pending

\* C21: query associativity: the conjunction chain L1 c1 L2 c2 ... Ln parses
\* without error to the right fold c1(L1, c2(L2, ... Ln)), whatever the
\* operators c1 ... are.
C21_RightFold ==
    ChainParsed =>
        call.ret = [node |-> RightFold(call.src.leaves, call.src.conjs), err |-> NoAppErr]

C21_Witness ==
    /\ ChainParsed
    /\ call.src.conjs = <<QueryAnd, QueryOr>>
    /\ call.ret.node.qtype = QueryAnd
    /\ call.ret.node.a.qtype = QueryLeaf
    /\ call.ret.node.b.qtype = QueryOr

\* C22: escape semantics: a value written between double quotes with its
\* double quotes and backslashes escaped parses back to the value, and the
\* rest of the query is what follows the closing quote.
C22_EscapeRoundTrip ==
    (call.op = "parseValue" /\ call.ret # Pending) =>
        call.ret = [value |-> call.src.value, rest |-> call.src.rest, err |-> NoAppErr]

\* the grammar of the query language: the index of the quote that closes the
\* value whose bytes start at i, a backslash escaping the byte after it;
\* 0 when the value is not closed
RECURSIVE GrammarValueEnd(_, _)
GrammarValueEnd(input, i) ==
    IF i > Len(input)
    THEN 0
    ELSE IF input[i] = Quote
    THEN i
    ELSE IF input[i] = Backslash
    THEN GrammarValueEnd(input, i + 2)
    ELSE GrammarValueEnd(input, i + 1)

\* expr := simple (conj expr)?, simple := field op value, whitespace skipped
\* before each token
RECURSIVE Conforms(_)
Conforms(input) ==
    \E f \in 1..Len(validQueryKinds), o \in 1..Len(validOperators) :
      LET s1 == skipws(input)
          s2 == skipws(Drop(s1, Len(validQueryKinds[f])))
          s3 == skipws(Drop(s2, Len(validOperators[o])))
          end == IF s3 # <<>> /\ Head(s3) = Quote THEN GrammarValueEnd(s3, 2) ELSE 0
          s4 == skipws(Drop(s3, end))
      IN /\ HasPrefix(s1, validQueryKinds[f])
         /\ HasPrefix(s2, validOperators[o])
         /\ end # 0
         /\ \/ s4 = <<>>
            \/ HasPrefix(s4, ConjAnd) /\ Conforms(Drop(s4, Len(ConjAnd)))
            \/ HasPrefix(s4, ConjOr) /\ Conforms(Drop(s4, Len(ConjOr)))

\* the suffixes of a text
Remainders(input) == { Drop(input, n) : n \in 0..Len(input) }

\* C23: parse errors: for every input that does not conform to the grammar,
\* parseQuery returns no tree and an error of code 400 whose message ends
\* with the first 20 bytes of the unparsed remainder at most, followed by
\* an ellipsis exactly when the remainder is longer than 20 bytes.
C23_ParseErrors ==
    (call.op = "parseQuery" /\ call.ret # Pending /\ ~Conforms(call.arg)) =>
        /\ call.ret.node = NilNode
        /\ call.ret.err.code = 400
        /\ \E rem \in Remainders(call.arg) :
             call.ret.err.message =
                InvalidQueryNear \o
                  (IF Len(rem) > 20
                   THEN SubSeq(rem, 1, 20) \o <<" ", ".", ".", ".">>
                   ELSE rem)

\* the to, cc and bcc addresses of the message a request is stored as
AddressesOf(req) ==
    LET p == req.personalizations[1]
        all == p.To \o p.Cc \o p.Bcc
    IN { all[i].email : i \in 1..Len(all) } \ { <<>> }

\* C24: receiver search exactness: to_email="X" matches a message if and
\* only if X is, in full, one of its to, cc or bcc addresses, and
\* to_email!="X" matches exactly the other messages.
C24_ReceiverExact ==
    (call.op = "searchMessages" /\ call.ret # Pending) =>
        (call.ret.matches <=>
            IF call.arg.op = QueryEqual
            THEN call.arg.value \in AddressesOf(call.src.req)
            ELSE call.arg.value \notin AddressesOf(call.src.req))

\* what getMessageBody wrote
Encoded == call.op = "getMessageBody" /\ call.ret # Pending

\* the header lines of the message: those before the first empty line
TopHeaders(bytes) ==
    { i \in 1..Len(bytes) :
        /\ bytes[i].line = "header"
        /\ \A j \in 1..i : bytes[j].line # "blank" }

TopContentTypes(bytes) == { i \in TopHeaders(bytes) : bytes[i].name = ContentType }

\* the Content-Type lines of the parts written at one boundary, in order
PartTypes(bytes, boundary) ==
    LET at == { i \in 1..(Len(bytes) - 1) : bytes[i] = Delimiter(boundary) }
        RECURSIVE upTo(_)
        upTo(n) ==
            IF n = 0
            THEN <<>>
            ELSE upTo(n - 1) \o (IF n \in at THEN <<bytes[n + 1].text>> ELSE <<>>)
    IN upTo(Len(bytes))

\* C25: encoder envelope for attachments: a message with at least one
\* attachment, whatever the number of its content parts, is encoded as a
\* multipart/mixed envelope that wraps one multipart/alternative part
\* followed by one part per attachment.
C25_MixedEnvelope ==
    (Encoded /\ Len(call.arg.packet.Attachments) >= 1) =>
        LET bytes == call.ret.bytes
            as == call.arg.packet.Attachments
        IN \E i \in TopContentTypes(bytes) :
             /\ bytes[i].text = MultipartMixed
             /\ PartTypes(bytes, bytes[i].boundary) =
                    <<MultipartAlternative>>
                    \o [k \in 1..Len(as) |-> DefaultType(as[k].Type)]

C27_ErrorOnlyOnAbandoned ==
    \A u \in Uids :
        messages[u].last_error \notin {SqlNull, NoError} => Status(u) = MessageAbandoned

C27_Witness ==
    \E u \in Uids :
        /\ messages[u].last_error = SmtpError
        /\ Status(u) = MessageAbandoned

\* C28: last_update is the time of the last status transition: every change
\* of a message's status, the change from Waiting to Processing made by
\* dequeueMessage included, sets last_update to the time of the change.
C28_LastUpdateAtTransition ==
    [][\A u \in Uids :
          messages'[u].status # messages[u].status => messages'[u].last_update = now]_vars

\* the search columns of a row
SearchFields(row) == <<row.sender, row.receivers, row.subject>>

\* the body of message u has been deleted
Purged(u) == messages[u].bid \notin DOMAIN bodies

\* C29 as stated: the search columns sender, receivers and subject of a
\* message are those written at enqueue as long as its body exists, and are
\* empty once the body has been purged.
C29_EmptiedOncePurged ==
    \A u \in Uids :
        IF Purged(u)
        THEN SearchFields(messages[u]) = <<"", <<>>, "">>
        ELSE SearchFields(messages[u]) =
                SearchFields(enqueueMessage1Row(Unmarshal(bodies[messages[u].bid]),
                                                messages[u].bid, 0))

\* C29, amended: the search columns sender, receivers and subject of a
\* message never change after enqueue; they keep their values when the body
\* of the message has been purged.
C29_SearchFieldsImmutable ==
    [][\A u \in Uids : SearchFields(messages'[u]) = SearchFields(messages[u])]_vars

C29_Witness ==
    \E u \in Uids :
        /\ u \in cleaned
        /\ Purged(u)
        /\ Status(u) = MessageSent
        /\ messages[u].sender # ""
        /\ messages[u].receivers # <<>>
        /\ messages[u].subject # ""

\* the header has the form Bearer KEY: "Bearer", one blank or more, the key
BearerKeys(value) ==
    { key \in Remainders(value) :
        /\ key = <<>> \/ Head(key) # Sp
        /\ \E n \in 1..Len(value) :
             /\ Len(value) = Len(Bearer) + n + Len(key)
             /\ value = Bearer \o [i \in 1..n |-> Sp] \o key }

\* the request carries no Authorization header, or a bearer key that is not
\* configured
Unauthorized(auth) ==
    \/ auth = <<>>
    \/ /\ BearerKeys(auth[1]) # {}
       /\ BearerKeys(auth[1]) \cap AppIDs = {}

\* C30: authorization gate: a send, search or log request without an
\* Authorization header, or whose bearer key is not one of the configured
\* keys, is answered with code 403; no message is enqueued and the store
\* does not change.
C30_AuthorizationGate ==
    [][(call'.op \in {"hMailSend", "hMessages", "hSMTPLog"} /\ Unauthorized(call'.arg)) =>
          /\ call'.ret.code = 403
          /\ messages' = messages
          /\ bodies' = bodies]_vars

C30_Witness ==
    /\ call.op = "hMailSend"
    /\ call.arg = << Bearer \o <<Sp, "x">> >>
    /\ call.ret.code = 403
    /\ messages # <<>>

\* ------------------------------------------------ dequeue, all or nothing
\* the dequeueMessage call of sender w returns an error or nil, nil
DequeueFails(w) == spc[w] \in {"loop", "body"} /\ spc'[w] = "sleep"

\* C31: dequeue is all-or-nothing: when dequeueMessage returns an error or
\* none, no message's status has changed (the row the call selected is still
\* Waiting); a message is Processing only through a call that returns it to
\* its caller, or that has not returned yet.
C31_DequeueAllOrNothing ==
    /\ [](\A u \in Uids :
            Status(u) = MessageProcessing =>
                \/ dequeued[u] >= 1
                \/ \E w \in Senders : spc[w] = "body" /\ scur[w].uid = u)
    /\ [][\A w \in Senders :
            DequeueFails(w) =>
                /\ messages' = messages
                /\ scur[w].uid \in Uids => Status(scur[w].uid) = MessageWaiting]_vars

\* --------------------------------------------- completion, all or nothing
\* sentMessage / abandonMessage of sender w returns an error: its update
\* statement fails, or its cleanMessageBody does and the body row stays
CompletionFails(w) ==
    \/ spc[w] \in {"sent", "abandon"} /\ spc'[w] = "sleep"
    \/ /\ spc[w] = "clean" /\ spc'[w] = "sleep"
       /\ messages[scur[w].uid].bid \in DOMAIN bodies'

\* C32: completion is all-or-nothing: when sentMessage / abandonMessage
\* returns an error, the message is as it was before the call, a Processing
\* row with no last_error and its last_update, and its Body exists.
C32_CompletionAllOrNothing ==
    [][\A w \in Senders :
          CompletionFails(w) =>
              /\ messages'[scur[w].uid].status = MessageProcessing
              /\ messages'[scur[w].uid].last_error = SqlNull
              /\ messages'[scur[w].uid].bid \in DOMAIN bodies']_vars

\* ------------------------------------------------------------ queue drains
\* C33: the queue drains: while the sender loops run, every Waiting message
\* is eventually dequeued and every Processing message eventually is Sent
\* or Abandoned, also after a dequeue call or a status update that returned
\* an error.
C33_QueueDrains ==
    \A u \in 1..MaxMsgs :
        /\ (u \in Uids /\ Status(u) = MessageWaiting) ~> (u \in Uids /\ Status(u) # MessageWaiting)
        /\ (u \in Uids /\ Status(u) = MessageProcessing)
              ~> (u \in Uids /\ Status(u) \in {MessageSent, MessageAbandoned})

\* ------------------------------------------------------ one body a message
\* C34: one Body per message: no body is referenced by more than one
\* message, and the count of cleanMessageBody for an existing message is 1.
C34_OneBodyPerMessage ==
    /\ \A u, v \in Uids : messages[u].bid = messages[v].bid => u = v
    /\ \A u \in Uids : cleanCount(u) = 1

\* a sender is about to run cleanMessageBody for one of several messages,
\* another one has completed already
C34_Witness ==
    \E w \in Senders :
        /\ spc[w] = "clean"
        /\ cleanCount(scur[w].uid) = 1
        /\ \E v \in cleaned : v # scur[w].uid
        /\ Cardinality(Uids) >= 2

\* ------------------------------------------------------- the bounce monitor
\* C35: a monitor1 call that returns processed = false (no mail, a fetch or
\* parse failure, an unrecognized bounce, an unknown id, a failure while
\* abandoning) leaves every messages row and every body as it was.
C35_UnprocessedLeavesStore ==
    [][(monitor1(FALSE) /\ ~mcur'.processed) =>
          /\ messages' = messages
          /\ bodies' = bodies]_vars

\* what a bounce for message x may change: the status, last_error and
\* last_update of row x, and the body of x
OnlyTouched(x) ==
    /\ DOMAIN messages' = DOMAIN messages
    /\ \A u \in Uids \ {x} : messages'[u] = messages[u]
    /\ [messages'[x] EXCEPT !.status = messages[x].status,
                            !.last_error = messages[x].last_error,
                            !.last_update = messages[x].last_update] = messages[x]
    /\ DOMAIN bodies \ {messages[x].bid} \subseteq DOMAIN bodies'
    /\ DOMAIN bodies' \subseteq DOMAIN bodies
    /\ \A b \in DOMAIN bodies' : bodies'[b] = bodies[b]

\* C36: a bounce affects the referenced message only: a monitor1 call that
\* processes a bounce for id x changes the status, last_error and
\* last_update of message x and deletes the body of x; every other message
\* and body is unchanged.
C36_BounceTouchesOnlyTarget ==
    [][(monitor1(FALSE) /\ mcur'.processed) =>
          \E x \in handed :
              /\ messages'[x].status = MessageAbandoned
              /\ OnlyTouched(x)]_vars

\* a bounce has been processed for one message while another message has
\* its row and its body as enqueued
C36_Witness ==
    /\ mcur.processed
    /\ \E x, v \in Uids :
          /\ x # v
          /\ Status(x) = MessageAbandoned
          /\ messages[x].last_error = Undeliverable
          /\ messages[x].bid \notin DOMAIN bodies
          /\ Status(v) \in {MessageWaiting, MessageProcessing}
          /\ messages[v].bid \in DOMAIN bodies

\* ------------------------------------------------------- the worker loops
\* what senderLoop has in hand after a failed iteration
FailureReturns == {"dequeue error", "send error"}

\* C37: the worker loops exit on a stop signal only: a sender loop or the
\* monitor loop exits only when its quit channel holds a signal; after a
\* dequeue error, an SMTP failure or a failed status update the sender loop
\* sleeps and goes on to its next iteration.
C37_LoopsExitOnlyOnStop ==
    /\ [][/\ \A w \in Senders :
               /\ (spc[w] # "exit" /\ spc'[w] = "exit") => quitSenderHandler[w] > 0
               /\ (scur'[w] # scur[w] /\ scur'[w].err \in FailureReturns)
                    => spc'[w] = "sleep"
               /\ (spc[w] = "sleep" /\ spc'[w] # "sleep") => spc'[w] = "loop"
          /\ (mpc # "exit" /\ mpc' = "exit") => quitMonitorHandler > 0
          /\ (mpc \in {"abandon", "clean"} /\ mpc' # mpc)
               => mpc' \in {"clean", "poll"}]_vars
    /\ \A w \in Senders : (spc[w] = "sleep") ~> (spc[w] = "loop")

\* a sender whose dequeue or status update failed for the message has
\* started another iteration and found the queue empty; nothing has exited
C37_Witness ==
    /\ dbfail # {}
    /\ \A w \in Senders :
          spc[w] = "sleep" /\ scur[w].err = "dequeue none" /\ quitSenderHandler[w] = 0
    /\ mpc = "poll"

\* ------------------------------------------------------ lookup after purge
\* C38: getMessage for the id of a message whose body has been purged
\* returns that message with its current status and the empty payload;
\* getMessage for an id no message has returns none; the store is not changed.
C38_LookupAfterPurge ==
    [][(call' # call /\ call'.op = "getMessage") =>
          /\ messages' = messages
          /\ bodies' = bodies
          /\ (call'.arg \in Uids /\ Purged(call'.arg)) =>
                /\ call'.ret.found
                /\ call'.ret.uid = call'.arg
                /\ call'.ret.status = Status(call'.arg)
                /\ call'.ret.packet = ZeroSendRequest
          /\ call'.arg \notin Uids => ~call'.ret.found]_vars

\* the message has been sent and its body purged; getMessage returned it as
\* Sent with the empty payload
C38_Witness ==
    /\ call.op = "getMessage"
    /\ call.arg \in Uids
    /\ Purged(call.arg)
    /\ call.ret.found
    /\ call.ret.status = MessageSent
    /\ Status(call.arg) = MessageSent
    /\ call.ret.packet = ZeroSendRequest

\* -------------------------------------------------------- encoding is pure
\* C39: getMessageBody does not modify the message: when it has returned,
\* the payload of the message, the custom header map of its personalization
\* included, is what it was before the call.
C39_EncodingIsPure ==
    (call.op = "getMessageBody" /\ call.ret # Pending) => call.ret.message = call.arg

\* ------------------------------------------------- unrecognized status names
StatusNames == {"waiting", "processing", "sent", "abandoned"}

\* C40: a status query whose literal is no status name is compared with
\* status code 0: status="x" selects the Waiting messages and no others,
\* status!="x" the messages that are not Waiting; no error is returned.
C40_UnrecognizedStatusName ==
    (/\ call.op = "searchMessages"
     /\ call.src.family = "status"
     /\ call.ret # Pending
     /\ call.arg.value \notin StatusNames) =>
        /\ call.ret.apperr = NoAppErrText
        /\ call.ret.uids =
             { u \in DOMAIN call.src.rows :
                 IF call.arg.op = QueryEqual
                 THEN call.src.rows[u] = MessageWaiting
                 ELSE call.src.rows[u] # MessageWaiting }

\* status="x" has selected the Waiting row of a table that has rows of other
\* statuses as well
C40_Witness ==
    /\ call.op = "searchMessages"
    /\ call.src.family = "status"
    /\ call.ret # Pending
    /\ call.arg.value = "x"
    /\ call.arg.op = QueryEqual
    /\ call.ret.uids # {}
    /\ call.ret.uids # DOMAIN call.src.rows
    /\ \A u \in call.ret.uids : call.src.rows[u] = MessageWaiting
====
